---- MODULE Spec2Model ----
(***************************************************************************)
(* A model of rupert: splitting a parsed markdown document into pages      *)
(* (presentation.rs), the footnote table shared by the page transforms     *)
(* (transform.rs), and measuring and drawing section trees (widget.rs).   *)
(*                                                                         *)
(* Each component has its own specification over the shared variables:    *)
(* PagesSpec, FootnotesSpec, LayoutSpec, SuperscriptSpec and those of the  *)
(* transform below.  A component's specification                          *)
(* leaves the other components' variables at their initial values.        *)
(***************************************************************************)
EXTENDS Integers, Sequences, FiniteSets, TLC

VARIABLES
    \* presentation.rs: the document and the page iterator
    doc,            \* the top-level nodes of the document, in sibling order
    break_condition,\* PageIterator.break_condition
    it_next,        \* PageIterator.next: Option<node>
    it_result,      \* what the last call of next() returned: "NotCalled", "Some", "None"
    pages,          \* the pages yielded so far, each a sequence of nodes
    \* transform.rs: the footnote table of the transform context
    footnotes,      \* Footnotes: [references, data]
    fn_call,        \* the last call on the table, its arguments and its result
    first_index,    \* per name, the index its first reference or definition returned
    defined,        \* the names passed to definition so far
    ref_log,        \* the names passed to reference since the last extract_references
    \* widget.rs: measuring and drawing the sections of a page
    page_sections,  \* the Sections being laid out
    width,          \* the width of the area
    overflow_checks,\* whether the build panics on integer overflow (debug) or wraps (release)
    expand_to_fill, \* whether Layout stretches its last part to the end of the area
    measured,       \* Option: the result of Sections::height
    rendered,       \* Option: the rows Sections::render has drawn into
    \* transform.rs: a footnote index turned into its label
    sup_index,      \* the index given to index_to_superscript
    sup_result,     \* Option: the string it returned
    \* main.rs, widget.rs: the pages collected into page widgets
    run_pages,      \* the pages of the presentation, each a sequence of nodes
    run_state,      \* where run() is: "collect", "finished", "ui" or "panicked"
    collector,      \* PageCollector being built: [context, sections, footnotes]
    widgets,        \* Option: what PageCollector::finish returned
    \* ui.rs, widget.rs: a page widget drawn into the frame
    frame_size,     \* the size of the terminal: [width, height]
    page_footnotes, \* the FootnoteListing of the page: <<label, Sections>> entries
    frame_rendered, \* Option: the rows the page widget has drawn into
    \* widget.rs: the height of one line
    line_runs,      \* the line: a sequence of runs (spans)
    line_width,     \* the width it is wrapped at
    line_indent,    \* the indent assumed before it
    line_height,    \* Option: what height_line returned
    \* configuration.rs: interpolate
    ip_pieces,      \* the pieces the argument `string` is made of
    ip_replacements,\* the replacements: a function from keys to Option values
    ip_text,        \* the local `text`
    ip_index,       \* the local `index`
    ip_state,       \* "idle", "loop" (in the while loop) or "done" (returned)
    \* rupert-macros: merge of two partial structs
    merge_self,     \* self: a record of Option fields
    merge_other,    \* other
    merged,         \* Option: what self.merge(other) returned
    \* main.rs, ui.rs: the main loop of the UI
    ui_pages,       \* the number of pages of the presentation
    path_ok,        \* whether path.canonicalize() succeeds during this run
    ui_state,       \* "main", "rejected", "run", "loop", "exited" (Ok) or "failed" (Err)
    ui_page,        \* the local `page` of run
    ui_event,       \* the last event read, "" before the first
    ui_turns,       \* the number of events read
    ui_drawn,       \* whether a frame was drawn
    ui_log          \* the commands dispatched so far, in order

pages_vars == <<doc, break_condition, it_next, it_result, pages>>

footnotes_vars == <<footnotes, fn_call, first_index, defined, ref_log>>

layout_vars ==
    <<page_sections, width, overflow_checks, expand_to_fill, measured, rendered>>

superscript_vars == <<sup_index, sup_result>>

collect_vars == <<run_pages, run_state, collector, widgets>>

ui_vars == <<frame_size, page_footnotes, frame_rendered>>

line_vars == <<line_runs, line_width, line_indent, line_height>>

interpolate_vars == <<ip_pieces, ip_replacements, ip_text, ip_index, ip_state>>

merge_vars == <<merge_self, merge_other, merged>>

loop_vars ==
    <<ui_pages, path_ok, ui_state, ui_page, ui_event, ui_turns, ui_drawn, ui_log>>

vars ==
    <<pages_vars, footnotes_vars, layout_vars, superscript_vars, collect_vars,
      ui_vars, line_vars, interpolate_vars, merge_vars, loop_vars>>

(***************************************************************************)
(* Option<T>: None is the empty sequence, Some(x) the sequence <<x>>.      *)
(***************************************************************************)
None == <<>>

Some(x) == <<x>>

unwrap(o) == o[1]

\* Iterator::flat_map over a sequence of sequences
RECURSIVE Concat(_)
Concat(ss) == IF ss = <<>> THEN <<>> ELSE Head(ss) \o Concat(Tail(ss))

(***************************************************************************)
(* Bounds.                                                                 *)
(***************************************************************************)
\* the largest number of top-level nodes after the optional front matter
MaxDoc == 4

\* the largest footnote index turned into a label
MaxIndex == 1010

\* the largest number of nodes in a document of footnotes
MaxNodes == 3

\* the largest number of items in a list, and its largest start value
MaxItems == 4

MaxStart == 3

\* the heading levels that occur in documents and in break conditions
MaxLevel == 2

\* the number of distinct footnote names
MaxNames == 2

\* the largest number of references between two extract_references calls
MaxRefs == 3

\* the largest number of characters of a line of text
MaxText == 3

\* the largest width of an area
MaxWidth == 5

\* the largest number of lines of a code block and of data rows of a table
MaxRows == 2

\* the height of an area that is tall enough for every page of the model
Tall == 30

\* the largest height of the terminal
MaxHeight == 7

\* the largest width a single line is measured at
MaxLineWidth == 10

\* the largest indent assumed before a single line
MaxIndent == 2

\* the largest number of pieces (tokens and other text) of an interpolated string
MaxPieces == 3

\* the largest number of pages shown by the UI
MaxPages == 3

\* the largest number of events read before the one that ends the loop
MaxEvents == 4

(***************************************************************************)
(* transform.rs: Footnotes                                                 *)
(***************************************************************************)
\* the footnote names of the documents, NameList[1..MaxNames]
NameList == <<"a", "b", "c", "d", "e">>

Names == {NameList[i] : i \in 1..MaxNames}

\* the Sections a definition can carry
Contents == {"s1", "s2"}

\* Footnotes::default
footnotes_default == [references |-> {}, data |-> <<>>]

\* self.data.iter().position(|(n, _)| name == n): the zero-based index of
\* the first entry with the name
position(data_, name) ==
    IF \E i \in 1..Len(data_) : data_[i][1] = name
    THEN Some((CHOOSE i \in 1..Len(data_) :
                  /\ data_[i][1] = name
                  /\ \A j \in 1..(i - 1) : data_[j][1] # name) - 1)
    ELSE None

\* Footnotes::reference
reference(self, name) ==
    LET refs == self.references \cup {name}
        index == position(self.data, name)
    IN  IF index # None
        THEN [self |-> [references |-> refs, data |-> self.data],
              ret |-> unwrap(index)]
        ELSE [self |-> [references |-> refs,
                        data |-> Append(self.data, <<name, None>>)],
              ret |-> Len(self.data) + 1 - 1]

\* Footnotes::definition, pushing a new entry whether or not the name is known
definition_push(self, name, sections) ==
    [self |-> [references |-> self.references,
               data |-> Append(self.data, <<name, Some(sections)>>)],
     ret |-> Len(self.data) + 1 - 1]

\* Footnotes::definition, keeping the content a known name already has
definition_keep(self, name, sections) ==
    LET index == position(self.data, name)
    IN  IF index # None
        THEN [self |-> [references |-> self.references,
                        data |-> IF self.data[unwrap(index) + 1][2] = None
                                 THEN [self.data EXCEPT ![unwrap(index) + 1][2] =
                                                            Some(sections)]
                                 ELSE self.data],
              ret |-> unwrap(index)]
        ELSE [self |-> [references |-> self.references,
                        data |-> Append(self.data, <<name, Some(sections)>>)],
              ret |-> Len(self.data) + 1 - 1]

\* Footnotes::definition
definition(self, name, sections) ==
    LET index == position(self.data, name)
    IN  IF index # None
        THEN [self |-> [references |-> self.references,
                        data |-> [self.data EXCEPT ![unwrap(index) + 1][2] =
                                                       Some(sections)]],
              ret |-> unwrap(index)]
        ELSE [self |-> [references |-> self.references,
                        data |-> Append(self.data, <<name, Some(sections)>>)],
              ret |-> Len(self.data) + 1 - 1]

\* Footnotes::lookup, taking the index as one-based
lookup_one_based(self, index) ==
    IF index >= 1 /\ index <= Len(self.data) THEN self.data[index][2] ELSE None

\* Footnotes::lookup: self.data.get(index).and_then(|(_, s)| s.as_ref())
lookup(self, index) ==
    IF index < Len(self.data) THEN self.data[index + 1][2] ELSE None

\* the orders in which the HashSet `references` can be iterated
iteration_orders(set) ==
    {order \in [1..Cardinality(set) -> set] :
        \A i, j \in 1..Cardinality(set) : i # j => order[i] # order[j]}

\* filter_map over the iterated names: the positions of those found in data
RECURSIVE filter_map_position(_, _)
filter_map_position(data_, order) ==
    IF order = <<>>
    THEN <<>>
    ELSE LET index == position(data_, Head(order))
         IN  (IF index # None THEN <<unwrap(index)>> ELSE <<>>)
             \o filter_map_position(data_, Tail(order))

\* Vec::sort, ascending
RECURSIVE insert_sorted(_, _)
insert_sorted(x, sorted) ==
    IF sorted = <<>>
    THEN <<x>>
    ELSE IF x <= Head(sorted)
         THEN <<x>> \o sorted
         ELSE <<Head(sorted)>> \o insert_sorted(x, Tail(sorted))

\* the indices left in iteration order
sort_skipped(indices) == indices

RECURSIVE sort(_)
sort(indices) ==
    IF indices = <<>> THEN <<>> ELSE insert_sorted(Head(indices), sort(Tail(indices)))

\* Footnotes::extract_references, leaving the set of references as it is
extract_references_keep(self, order) ==
    [self |-> self,
     ret |-> sort(filter_map_position(self.data, order))]

\* Footnotes::extract_references, with the set iterated in `order`
extract_references(self, order) ==
    [self |-> [references |-> {}, data |-> self.data],
     ret |-> sort(filter_map_position(self.data, order))]

\* Context::from: an empty table, nothing called yet
FootnotesNew ==
    /\ footnotes = footnotes_default
    /\ fn_call = [op |-> "new", name |-> "", sections |-> "",
                  index |-> 0, ret |-> None, before |-> footnotes_default,
                  log |-> <<>>]
    /\ first_index = [n \in Names |-> None]
    /\ defined = {}
    /\ ref_log = <<>>

\* what a call that returns an index records about the name
note_index(name, index) ==
    [first_index EXCEPT ![name] = IF @ = None THEN Some(index) ELSE @]

\* a reference to the footnote `name` in the inline content of a page
Reference(name) ==
    /\ Len(ref_log) < MaxRefs
    /\ LET r == reference(footnotes, name)
       IN  /\ footnotes' = r.self
           /\ fn_call' = [op |-> "reference", name |-> name,
                          sections |-> "", index |-> 0, ret |-> r.ret,
                          before |-> footnotes, log |-> ref_log]
           /\ first_index' = note_index(name, r.ret)
    /\ ref_log' = Append(ref_log, name)
    /\ UNCHANGED defined

\* a footnote definition node of a page
Definition(name, sections) ==
    /\ LET r == definition(footnotes, name, sections)
       IN  /\ footnotes' = r.self
           /\ fn_call' = [op |-> "definition", name |-> name,
                          sections |-> sections, index |-> 0, ret |-> r.ret,
                          before |-> footnotes, log |-> ref_log]
           /\ first_index' = note_index(name, r.ret)
    /\ defined' = defined \cup {name}
    /\ UNCHANGED ref_log

\* PageCollector::finish looking up an index
Lookup(index) ==
    /\ fn_call' = [op |-> "lookup", name |-> "",
                   sections |-> "", index |-> index,
                   ret |-> lookup(footnotes, index),
                   before |-> footnotes, log |-> ref_log]
    /\ UNCHANGED <<footnotes, first_index, defined, ref_log>>

\* PageCollector::collect extracting the references at the end of a page
ExtractReferences ==
    /\ \E order \in iteration_orders(footnotes.references) :
          LET r == extract_references(footnotes, order)
          IN  /\ footnotes' = r.self
              /\ fn_call' = [op |-> "extract_references",
                             name |-> "", sections |-> "", index |-> 0,
                             ret |-> r.ret, before |-> footnotes, log |-> ref_log]
    /\ ref_log' = <<>>
    /\ UNCHANGED <<first_index, defined>>

FootnotesNext ==
    /\ \/ \E name \in Names : Reference(name)
       \/ \E name \in Names, sections \in Contents : Definition(name, sections)
       \/ \E index \in 0..MaxNames : Lookup(index)
       \/ ExtractReferences
    /\ UNCHANGED <<pages_vars, layout_vars, superscript_vars, collect_vars, ui_vars,
                   line_vars,
                   interpolate_vars,
                   merge_vars,
                   loop_vars>>

(***************************************************************************)
(* transform.rs: Footnotes::index_to_superscript.  A string is the         *)
(* sequence of its characters; the superscript of the digit d is written   *)
(* "^d".                                                                   *)
(***************************************************************************)
\* Footnotes::SUPERSCRIPTS
SUPERSCRIPTS == <<"^0", "^1", "^2", "^3", "^4", "^5", "^6", "^7", "^8", "^9">>

\* the loop with every digit pushed at the end of the result
RECURSIVE superscript_loop_push(_, _)
superscript_loop_push(current, result) ==
    IF current > 0
    THEN superscript_loop_push(current \div 10,
                               result \o <<SUPERSCRIPTS[(current % 10) + 1]>>)
    ELSE result

\* while current > 0 { ...; result.insert(0, SUPERSCRIPTS[i]) }
RECURSIVE superscript_loop(_, _)
superscript_loop(current, result) ==
    IF current > 0
    THEN superscript_loop(current \div 10,
                          <<SUPERSCRIPTS[(current % 10) + 1]>> \o result)
    ELSE result

\* Footnotes::index_to_superscript
index_to_superscript(index) == superscript_loop(index + 1, <<>>)

\* an index about to be converted
SuperscriptNew ==
    /\ sup_index \in 0..MaxIndex
    /\ sup_result = None

\* Footnotes::index_to_superscript(sup_index)
IndexToSuperscript ==
    /\ sup_result = None
    /\ sup_result' = Some(index_to_superscript(sup_index))
    /\ UNCHANGED sup_index

SuperscriptNext ==
    /\ IndexToSuperscript
    /\ UNCHANGED <<pages_vars, footnotes_vars, layout_vars, collect_vars, ui_vars,
                   line_vars,
                   interpolate_vars,
                   merge_vars,
                   loop_vars>>

\* no index being converted
SuperscriptIdle ==
    /\ sup_index = 0
    /\ sup_result = None

(***************************************************************************)
(* u16 arithmetic.  An overflow panics where the build checks for it and   *)
(* wraps where it does not; a panic is the value Panic, and every          *)
(* operation on it gives Panic again.                                      *)
(***************************************************************************)
Panic == -1

U16 == 65536

add16(a, b) ==
    IF a = Panic \/ b = Panic
    THEN Panic
    ELSE IF a + b < U16
         THEN a + b
         ELSE IF overflow_checks THEN Panic ELSE (a + b) % U16

sub16(a, b) ==
    IF a = Panic \/ b = Panic
    THEN Panic
    ELSE IF a >= b
         THEN a - b
         ELSE IF overflow_checks THEN Panic ELSE (a - b) % U16

\* u16::saturating_sub
saturating_sub(a, b) ==
    IF a = Panic \/ b = Panic THEN Panic ELSE IF a >= b THEN a - b ELSE 0

\* Iterator::sum::<u16>
RECURSIVE sum16(_)
sum16(seq) == IF seq = <<>> THEN 0 ELSE add16(Head(seq), sum16(Tail(seq)))

(***************************************************************************)
(* transform.rs: Section and Sections.  A Span is the sequence of its      *)
(* characters, a line (Spans) a sequence of spans, a Text a sequence of    *)
(* lines.                                                                  *)
(***************************************************************************)
INDENT == 4

BlockQuote(content) == [kind |-> "BlockQuote", content |-> content]

Code(text) == [kind |-> "Code", text |-> text]

Heading(text, level) == [kind |-> "Heading", text |-> text, level |-> level]

List(content) == [kind |-> "List", content |-> content]

ListItemOrdered(content, ordinal, delimiter) ==
    [kind |-> "ListItemOrdered", content |-> content, ordinal |-> ordinal,
     delimiter |-> delimiter]

ListItemUnordered(content, bullet) ==
    [kind |-> "ListItemUnordered", content |-> content, bullet |-> bullet]

Paragraph(text) == [kind |-> "Paragraph", text |-> text]

Table(rows) == [kind |-> "Table", rows |-> rows]

ThematicBreak == [kind |-> "ThematicBreak"]

\* TableRow
TableRow(header, cells) == [header |-> header, cells |-> cells]

\* impl From<Vec<Section>> for Sections
SectionsFrom(source) == [sections |-> source, inner_margin |-> 1]

\* the content of a list: content.inner_margin = 0
ListContent(source) == [sections |-> source, inner_margin |-> 0]

(***************************************************************************)
(* widget.rs: height                                                       *)
(***************************************************************************)
\* char::is_whitespace
is_whitespace(c) == c \in {" ", "\n", "\t"}

\* a line that holds any character at all
contains_any_character(line) == Len(Concat(line)) > 0

\* Section::contains_non_whitespace
contains_non_whitespace(line) ==
    \E i \in 1..Len(Concat(line)) : ~is_whitespace(Concat(line)[i])

\* the closure without the return to column 0 after a new row
height_line_step_keep(width_, state, i, c) ==
    IF add16(state.pos, 1) >= width_
    THEN [height |-> add16(state.height, 1), pos |-> add16(state.pos, 1),
          current |-> state.current]
    ELSE [height |-> state.height, pos |-> add16(state.pos, 1),
          current |-> state.current]

\* The closure folded by Section::height_line over the characters: `i` is
\* the zero-based index of the character `c`.  current is the Word:
\* <<"None">>, <<"Started", at>> or <<"WrappedAt", length>>.
height_line_step(width_, state, i, c) ==
    LET pos == add16(state.pos, 1)
        current == state.current
        word ==
            IF current[1] = "None" /\ ~is_whitespace(c)
            THEN [current |-> <<"Started", i>>, pos |-> pos]
            ELSE IF current[1] = "Started" /\ is_whitespace(c)
            THEN [current |-> <<"None">>, pos |-> pos]
            ELSE IF current[1] = "Started" /\ pos >= width_
            THEN [current |-> <<"WrappedAt", sub16(i, current[2])>>, pos |-> pos]
            ELSE IF current[1] = "WrappedAt" /\ is_whitespace(c)
            THEN [current |-> <<"None">>,
                  pos |-> IF pos > 0 THEN add16(pos, current[2]) ELSE pos]
            ELSE [current |-> current, pos |-> pos]
    IN  IF word.pos = Panic \/ (word.current[1] = "WrappedAt" /\ word.current[2] = Panic)
        THEN [height |-> Panic, pos |-> 0, current |-> <<"None">>]
        ELSE IF word.pos >= width_
        THEN [height |-> add16(state.height, 1), pos |-> 0, current |-> word.current]
        ELSE [height |-> state.height, pos |-> word.pos, current |-> word.current]

RECURSIVE height_line_fold(_, _, _, _)
height_line_fold(width_, state, chars, i) ==
    IF i >= Len(chars) \/ state.height = Panic
    THEN state
    ELSE height_line_fold(width_, height_line_step(width_, state, i, chars[i + 1]),
                          chars, i + 1)

\* every run measured as a line of its own
height_line_by_span(width_, indent, value) ==
    sum16([r \in 1..Len(value) |->
              height_line_fold(width_,
                               [height |-> 1, pos |-> indent, current |-> <<"None">>],
                               value[r], 0).height])

\* Section::height_line
height_line(width_, indent, value) ==
    height_line_fold(width_, [height |-> 1, pos |-> indent, current |-> <<"None">>],
                     Concat(value), 0).height

\* the padding of a heading below it instead of above it
padding_below(section) == IF section.kind = "Heading" THEN <<0, 1>> ELSE <<0, 0>>

\* Section::padding
padding(section) == IF section.kind = "Heading" THEN <<1, 0>> ELSE <<0, 0>>

\* Section::height_table
height_table(width_, rows) ==
    IF Len(rows) > 0
    THEN LET height_border == 2
             height_header == IF \E i \in 1..Len(rows) : rows[i].header THEN 1 ELSE 0
             height_rows ==
                 sub16(sum16([i \in 1..Len(SelectSeq(rows, LAMBDA row : ~row.header))
                                 |-> 2]),
                       1)
         IN  add16(add16(height_border, height_header), height_rows)
    ELSE 0

RECURSIVE section_height(_, _)
RECURSIVE sections_height(_, _)
\* Sections::height_of
height_of(self, section, width_, is_first, is_last) ==
    add16(add16(section_height(section, width_),
                IF is_first THEN 0 ELSE padding(section)[1]),
          IF is_last THEN 0 ELSE add16(padding(section)[2], self.inner_margin))

\* Section::height and the height_* function of each variant
section_height(section, width_) ==
    CASE section.kind = "BlockQuote" ->
            add16(1, sections_height(section.content, width_))
      [] section.kind = "Code" -> Len(section.text)
      [] section.kind = "Heading" ->
            height_line(width_, add16(section.level, 1), section.text)
      [] section.kind \in {"List", "ListItemOrdered", "ListItemUnordered"} ->
            sections_height(section.content, width_)
      [] section.kind = "Paragraph" ->
            IF \E l \in 1..Len(section.text) : contains_non_whitespace(section.text[l])
            THEN sum16([l \in 1..Len(section.text)
                           |-> height_line(width_, 0, section.text[l])])
            ELSE 0
      [] section.kind = "Table" -> height_table(width_, section.rows)
      [] section.kind = "ThematicBreak" -> 1

\* Sections::height
sections_height(self, width_) ==
    sum16([i \in 1..Len(self.sections)
              |-> height_of(self, self.sections[i], width_,
                            i = 1, i = Len(self.sections))])

(***************************************************************************)
(* tui, as widget.rs uses it.  The widgets and Layout are a library, not   *)
(* part of rupert: Paragraph composes its lines with a greedy word wrap    *)
(* (Wrap { trim: true }) or one line per text line (no wrap) and draws as  *)
(* many of them as the area has rows; Block draws its borders; Layout      *)
(* gives a Length constraint its length from the start of the area, as     *)
(* far as the area reaches.  Whether the last part of a split is stretched *)
(* to the end of the area depends on the version of the library            *)
(* (expand_to_fill), so both are modelled.  All characters of the model    *)
(* are one cell wide.                                                      *)
(***************************************************************************)
max(a, b) == IF a >= b THEN a ELSE b

min(a, b) == IF a <= b THEN a ELSE b

\* Vec::truncate and the slice from a zero-based index
truncate(seq, n) == SubSeq(seq, 1, min(n, Len(seq)))

slice_from(seq, n) == SubSeq(seq, n + 1, Len(seq))

\* the symbols Paragraph feeds its line composer: the characters of each
\* line without the line feeds inside spans, and a line feed after each line
styled_graphemes(text) ==
    Concat([l \in 1..Len(text) |->
               SelectSeq(Concat(text[l]), LAMBDA c : c # "\n") \o <<"\n">>])

\* the remainder that the word wrapper carries to the next line: from the
\* first character that is not whitespace
RECURSIVE strip_leading_whitespace(_)
strip_leading_whitespace(seq) ==
    IF seq = <<>>
    THEN <<>>
    ELSE IF is_whitespace(Head(seq))
         THEN strip_leading_whitespace(Tail(seq))
         ELSE seq

\* the loop of WordWrapper::next_line (trim): the line composed from
\* `current` and the symbols, the line carried over and the symbols left
RECURSIVE word_wrapper_scan(_, _, _, _, _, _)
word_wrapper_scan(max_line_width, current, symbols, last_word_end, prev_whitespace, exhausted) ==
    IF symbols = <<>>
    THEN [line |-> current, next |-> <<>>, symbols |-> symbols,
          exhausted |-> exhausted]
    ELSE LET symbol == Head(symbols)
             rest == Tail(symbols)
             whitespace == is_whitespace(symbol)
         IN  IF whitespace /\ symbol # "\n" /\ Len(current) = 0
             THEN word_wrapper_scan(max_line_width, current, rest, last_word_end,
                                    prev_whitespace, FALSE)
             ELSE IF symbol = "\n"
             THEN [line |-> IF prev_whitespace
                            THEN truncate(current, last_word_end)
                            ELSE current,
                   next |-> <<>>, symbols |-> rest, exhausted |-> FALSE]
             ELSE LET word_end == IF whitespace /\ ~prev_whitespace
                                  THEN Len(current)
                                  ELSE last_word_end
                      pushed == Append(current, symbol)
                  IN  IF Len(pushed) > max_line_width
                      THEN LET truncate_at == IF word_end # 0
                                              THEN word_end
                                              ELSE Len(pushed) - 1
                           IN  [line |-> truncate(pushed, truncate_at),
                                next |-> strip_leading_whitespace(
                                             slice_from(pushed, truncate_at)),
                                symbols |-> rest, exhausted |-> FALSE]
                      ELSE word_wrapper_scan(max_line_width, pushed, rest, word_end,
                                             whitespace, FALSE)

\* the number of lines WordWrapper::next_line yields until it returns None
RECURSIVE word_wrapper_lines(_, _, _)
word_wrapper_lines(max_line_width, carried, symbols) ==
    IF max_line_width = 0
    THEN 0
    ELSE LET r == word_wrapper_scan(max_line_width, carried, symbols, 0, FALSE, TRUE)
         IN  IF r.exhausted /\ r.line = <<>>
             THEN 0
             ELSE 1 + word_wrapper_lines(max_line_width, r.next, r.symbols)

\* Paragraph::render with wrap(Wrap { trim: true }): the rows of the area
\* that hold a composed line
paragraph_wrap_rows(text, width_, height) ==
    min(height, word_wrapper_lines(width_, <<>>, styled_graphemes(text)))

\* Paragraph::render without wrap: a row per line of the text
paragraph_rows(text, width_, height) ==
    IF width_ = 0 THEN 0 ELSE min(height, Len(text))

\* Block::render with a top border (Borders::TOP or Borders::ALL reaches
\* the last row of the area as well)
block_top_rows(width_, height) == IF width_ = 0 \/ height = 0 THEN 0 ELSE 1

block_all_rows(width_, height) == IF width_ = 0 \/ height = 0 THEN 0 ELSE height

\* Layout::split of `length` cells with Length constraints: the offset and
\* the length of every part
RECURSIVE layout_offsets(_, _, _)
layout_offsets(length, lengths, offset) ==
    IF lengths = <<>>
    THEN <<>>
    ELSE IF Len(lengths) = 1 /\ expand_to_fill
         THEN <<[offset |-> offset, length |-> length - offset]>>
         ELSE <<[offset |-> offset, length |-> min(Head(lengths), length - offset)]>>
              \o layout_offsets(length, Tail(lengths),
                                min(length, offset + Head(lengths)))

layout_split(length, lengths) == layout_offsets(length, lengths, 0)

\* Layout::split with [Length(first), Max(length)]
layout_split_rest(length, first) ==
    <<[offset |-> 0, length |-> min(first, length)],
      [offset |-> min(first, length), length |-> length - min(first, length)]>>

(***************************************************************************)
(* widget.rs: render.  An area is its width and height; the result is the  *)
(* number of rows, counted from the top of the area down to the last row   *)
(* that holds anything drawn, or Panic.                                    *)
(***************************************************************************)
\* the rows down to the last section that drew anything
RECURSIVE max_rows(_)
max_rows(seq) ==
    IF seq = <<>>
    THEN 0
    ELSE IF Head(seq) = Panic \/ max_rows(Tail(seq)) = Panic
         THEN Panic
         ELSE max(Head(seq), max_rows(Tail(seq)))

\* rows drawn `offset` rows below the top of the enclosing area
below(offset, rows) ==
    IF rows = Panic \/ offset = Panic THEN Panic
    ELSE IF rows = 0 THEN 0 ELSE offset + rows

RECURSIVE section_render(_, _, _)
RECURSIVE sections_render(_, _, _)
\* Section::render_block_quote
render_block_quote(content, width_, height) ==
    LET parts == layout_split_rest(height, 1)
        columns == layout_split_rest(width_, INDENT \div 2)
    IN  max_rows(<<paragraph_rows(<< <<"q">> >>, width_, parts[1].length),
                   below(parts[2].offset,
                         sections_render(content, columns[2].length, parts[2].length))>>)

\* Section::render_list_item_ordered and Section::render_list_item_unordered
render_list_item(content, width_, height) ==
    LET columns == layout_split_rest(width_, INDENT)
    IN  max_rows(<<paragraph_rows(<< <<"1", ".">> >>, columns[1].length, height),
                   sections_render(content, columns[2].length, height)>>)

\* Section::render_heading
render_heading(text, level, width_, height) ==
    paragraph_wrap_rows(<< <<[i \in 1..level |-> "#"] \o <<" ">> >> \o text >>,
                        width_, height)

\* Section::render_paragraph
render_paragraph(text, width_, height) ==
    IF \E l \in 1..Len(text) : contains_non_whitespace(text[l])
    THEN paragraph_wrap_rows(text, width_, height)
    ELSE 0

\* Section::render
section_render(section, width_, height) ==
    CASE section.kind = "BlockQuote" ->
            render_block_quote(section.content, width_, height)
      [] section.kind = "Code" -> paragraph_rows(section.text, width_, height)
      [] section.kind = "Heading" ->
            render_heading(section.text, section.level, width_, height)
      [] section.kind = "List" -> sections_render(section.content, width_, height)
      [] section.kind \in {"ListItemOrdered", "ListItemUnordered"} ->
            render_list_item(section.content, width_, height)
      [] section.kind = "Paragraph" -> render_paragraph(section.text, width_, height)
      [] section.kind = "Table" -> block_all_rows(width_, height)
      [] section.kind = "ThematicBreak" -> block_top_rows(width_, height)

\* the part of section i in Sections::render after its padding and the
\* inner margin are taken off
render_part(self, parts, i) ==
    LET first == i = 1
        last == i = Len(self.sections)
        pad == padding(self.sections[i])
        top == IF first THEN 0 ELSE pad[1]
        height1 == IF first
                   THEN parts[i].length
                   ELSE saturating_sub(parts[i].length, pad[1])
        height2 == IF last
                   THEN height1
                   ELSE saturating_sub(height1, add16(pad[2], self.inner_margin))
    IN  [offset |-> parts[i].offset + top, length |-> height2]

\* the parts the sections are rendered into by Sections::render, when no
\* height_of panics
render_parts(self, parts) ==
    [i \in 1..Len(self.sections) |-> render_part(self, parts, i)]

sections_render_parts(self, width_, height) ==
    render_parts(self,
                 layout_split(height,
                              [j \in 1..Len(self.sections) |->
                                  height_of(self, self.sections[j], width_,
                                            j = 1, j = Len(self.sections))]))

\* Sections::render
sections_render(self, width_, height) ==
    LET lengths == [i \in 1..Len(self.sections)
                       |-> height_of(self, self.sections[i], width_,
                                     i = 1, i = Len(self.sections))]
    IN  IF \E i \in 1..Len(lengths) : lengths[i] = Panic
        THEN Panic
        ELSE LET parts == layout_split(height, lengths)
             IN  max_rows([i \in 1..Len(self.sections) |->
                     below(render_part(self, parts, i).offset,
                           section_render(self.sections[i], width_,
                                          render_part(self, parts, i).length))])

(***************************************************************************)
(* The pages that are laid out.                                            *)
(***************************************************************************)
Chars == {"x", " "}

\* the lines of text of at most n characters, each in one span
Lines(n) == {<<chars>> : chars \in UNION {[1..k -> Chars] : k \in 0..n}}

\* the sections without nested sections
\* of one line, and of two lines each with or without a word
ParagraphSections ==
    {Paragraph(<<line>>) : line \in Lines(MaxText)}
    \cup {Paragraph(<< <<<<a>>>>, <<<<b>>>> >>) : a \in Chars, b \in Chars}

HeadingSections ==
    {Heading(line, level) : line \in Lines(MaxText), level \in 1..MaxLevel}

CodeSections == {Code([l \in 1..n |-> <<<<"x", "\n">>>>]) : n \in 0..MaxRows}

\* the tables with or without a header row, and with no row at all
TableSections ==
    {Table((IF header THEN <<TableRow(TRUE, <<>>)>> ELSE <<>>)
           \o [r \in 1..n |-> TableRow(FALSE, <<>>)]) :
        header \in BOOLEAN, n \in 0..MaxRows}

LeafSections ==
    ParagraphSections \cup HeadingSections \cup CodeSections \cup TableSections
    \cup {ThematicBreak}

\* a few short sections to stand beside any other
ShortSections ==
    {Paragraph(<< <<<<"x">>>> >>), Paragraph(<< <<<<" ">>>> >>),
     Heading(<<<<"x">>>>, 1), ThematicBreak}

\* one section, or two of which one is short
SectionVecs ==
    {<<>>} \cup {<<s>> : s \in LeafSections}
    \cup {<<s, t>> : s \in LeafSections, t \in ShortSections}
    \cup {<<t, s>> : s \in LeafSections, t \in ShortSections}

\* the sections with nested sections: block quotes and lists of one or two
\* items
NestedSections ==
    {BlockQuote(SectionsFrom(v)) : v \in SectionVecs}
    \cup {List(ListContent(<<ListItemOrdered(SectionsFrom(<<s>>), 1, ".")>>)) :
            s \in LeafSections}
    \cup {List(ListContent(<<ListItemUnordered(SectionsFrom(<<s>>), "-"),
                             ListItemUnordered(SectionsFrom(<<t>>), "-")>>)) :
            s \in LeafSections, t \in ShortSections}

PageSections ==
    {SectionsFrom(v) : v \in SectionVecs}
    \cup {SectionsFrom(<<s>>) : s \in NestedSections}
    \cup {SectionsFrom(<<s, t>>) : s \in NestedSections, t \in ShortSections}

\* a page ready to be laid out in an area of some width
LayoutNew ==
    /\ page_sections \in PageSections
    /\ width \in 0..MaxWidth
    /\ overflow_checks \in BOOLEAN
    /\ expand_to_fill \in BOOLEAN
    /\ measured = None
    /\ rendered = None

\* Sections::height
SectionsHeight ==
    /\ measured = None
    /\ measured' = Some(sections_height(page_sections, width))
    /\ UNCHANGED <<page_sections, width, overflow_checks, expand_to_fill, rendered>>

\* Sections::render into an area of the width that is tall enough
SectionsRender ==
    /\ rendered = None
    /\ rendered' = Some(sections_render(page_sections, width, Tall))
    /\ UNCHANGED <<page_sections, width, overflow_checks, expand_to_fill, measured>>

LayoutNext ==
    /\ \/ SectionsHeight
       \/ SectionsRender
    /\ UNCHANGED <<pages_vars, footnotes_vars, superscript_vars, collect_vars, ui_vars,
                   line_vars,
                   interpolate_vars,
                   merge_vars,
                   loop_vars>>

(***************************************************************************)
(* widget.rs, ui.rs: the page widget in the frame.  The rows are counted   *)
(* from the top of the area of the page widget.                            *)
(***************************************************************************)
\* the fold of FootnoteListing::render over the entries: rect is `height`
\* rows, `y` rows below the top of the area
RECURSIVE footnote_listing_fold(_, _, _, _, _)
footnote_listing_fold(listing, margin, area_width, y, height) ==
    IF listing = <<>>
    THEN 0
    ELSE IF sections_height(Head(listing)[2], sub16(area_width, margin)) = Panic
    THEN Panic
    ELSE max_rows(
            <<below(y, paragraph_rows(<< <<Head(listing)[1]>> >>,
                                      layout_split_rest(area_width, margin)[1].length,
                                      height)),
              below(y, sections_render(Head(listing)[2],
                                       layout_split_rest(area_width, margin)[2].length,
                                       height)),
              footnote_listing_fold(
                  Tail(listing), margin, area_width,
                  add16(y, sections_height(Head(listing)[2],
                                           sub16(area_width, margin))),
                  sub16(height, sections_height(Head(listing)[2],
                                                sub16(area_width, margin))))>>)

\* the rect of every step of that fold, the rows the footnote measures
\* (used) and the rows of the rect its label and its sections are drawn into
RECURSIVE footnote_listing_rects(_, _, _, _, _)
footnote_listing_rects(listing, margin, area_width, y, height) ==
    IF listing = <<>>
    THEN <<>>
    ELSE <<[y |-> y,
            height |-> height,
            used |-> sections_height(Head(listing)[2], sub16(area_width, margin)),
            rows |-> max_rows(
                <<paragraph_rows(<< <<Head(listing)[1]>> >>,
                                 layout_split_rest(area_width, margin)[1].length,
                                 height),
                  sections_render(Head(listing)[2],
                                  layout_split_rest(area_width, margin)[2].length,
                                  height)>>)]>>
         \o footnote_listing_rects(
                Tail(listing), margin, area_width,
                add16(y, sections_height(Head(listing)[2],
                                         sub16(area_width, margin))),
                sub16(height, sections_height(Head(listing)[2],
                                              sub16(area_width, margin))))

\* the widest label and a column: index.chars().count() as u16 + 1
listing_margin(listing) ==
    IF listing = <<>>
    THEN 0
    ELSE CHOOSE m \in {add16(Len(listing[i][1]), 1) : i \in 1..Len(listing)} :
            \A i \in 1..Len(listing) : add16(Len(listing[i][1]), 1) <= m

\* the sum of the heights of the footnotes beside the margin
listing_height(listing, area_width) ==
    IF listing # <<>> /\ sub16(area_width, listing_margin(listing)) = Panic
    THEN Panic
    ELSE sum16([i \in 1..Len(listing) |->
                   sections_height(listing[i][2],
                                   sub16(area_width, listing_margin(listing)))])

\* FootnoteListing::render
footnote_listing_render(listing, area_width, area_height) ==
    IF listing_height(listing, area_width) = Panic
    THEN Panic
    ELSE IF listing_height(listing, area_width) <= area_height
    THEN footnote_listing_fold(listing, listing_margin(listing), area_width,
                               area_height - listing_height(listing, area_width),
                               listing_height(listing, area_width))
    ELSE 0

\* PageWidget::render
page_widget_render(sections, listing, area_width, area_height) ==
    IF sections_height(sections, area_width) = Panic
    THEN Panic
    ELSE max_rows(
            <<sections_render(sections, area_width, area_height),
              IF area_height > sections_height(sections, area_width)
              THEN below(sections_height(sections, area_width),
                         footnote_listing_render(
                             listing, area_width,
                             area_height - sections_height(sections, area_width)))
              ELSE 0>>)

\* Block::inner with Borders::ALL: a cell less on every side
block_inner(size) ==
    [width |-> saturating_sub(size.width, 2), height |-> saturating_sub(size.height, 2)]

\* main_layout[0] of render: the area of the page widget; its height is
\* Panic when the subtraction panics
page_area(size) ==
    [width |-> block_inner(size).width,
     height |-> IF sub16(size.height, 3) = Panic
                THEN Panic
                ELSE layout_split(block_inner(size).height,
                                  <<sub16(size.height, 3), 1>>)[1].length]

\* render of ui.rs: the page widget in main_layout[0]
ui_render(size, sections, listing) ==
    IF page_area(size).height = Panic
    THEN Panic
    ELSE page_widget_render(sections, listing,
                            page_area(size).width, page_area(size).height)

\* the pages drawn in the frame: nothing, or one section without nested
\* sections
FrameSections ==
    {SectionsFrom(<<>>)}
    \cup {SectionsFrom(<<s>>) : s \in ShortSections \cup CodeSections \cup TableSections}

\* the footnotes of a page: none, one or two of a word
FootnoteListings ==
    {[i \in 1..n |->
         <<index_to_superscript(i - 1), SectionsFrom(<<Paragraph(<< <<<<"x">>>> >>)>>)>>] :
        n \in 0..MaxNames}

\* a page widget about to be drawn in a terminal of some size; its
\* sections are measured and drawn in the width of the page area
FrameNew ==
    /\ frame_size \in [width : 0..(MaxWidth + 2), height : 0..MaxHeight]
    /\ page_footnotes \in FootnoteListings
    /\ frame_rendered = None
    /\ page_sections \in FrameSections
    /\ width = block_inner(frame_size).width
    /\ overflow_checks \in BOOLEAN
    /\ expand_to_fill \in BOOLEAN
    /\ measured = None
    /\ rendered = None

\* terminal.draw(|frame| render(frame, &page_widgets, page))
UiRender ==
    /\ frame_rendered = None
    /\ frame_rendered' = Some(ui_render(frame_size, page_sections, page_footnotes))
    /\ UNCHANGED <<frame_size, page_footnotes>>

FrameNext ==
    \/ /\ UiRender
       /\ UNCHANGED <<pages_vars, footnotes_vars, layout_vars, superscript_vars,
                      collect_vars, line_vars,
                   interpolate_vars,
                   merge_vars,
                   loop_vars>>
    \/ LayoutNext

\* nothing drawn in a frame
FrameIdle ==
    /\ frame_size = [width |-> 0, height |-> 0]
    /\ page_footnotes = <<>>
    /\ frame_rendered = None

(***************************************************************************)
(* widget.rs: height_line on its own, for the lines of its test and of the *)
(* specification and for short lines, cut into runs.                       *)
(***************************************************************************)
\* "one two three"
OneTwoThree == <<"o", "n", "e", " ", "t", "w", "o", " ", "t", "h", "r", "e", "e">>

\* "a long w", `os` times "o", "rd"
LongWordLine(os) ==
    <<"a", " ", "l", "o", "n", "g", " ", "w">> \o [i \in 1..os |-> "o"] \o <<"r", "d">>

\* the line of the test of height_line: 45 characters
TestLongLine == LongWordLine(35)

\* the 28 characters "a long woooooooooooooooooord"
ShortLongLine == LongWordLine(18)

\* the texts that are measured
LineTexts ==
    {OneTwoThree, SubSeq(OneTwoThree, 1, 3), SubSeq(OneTwoThree, 1, 7),
     TestLongLine, ShortLongLine}
    \cup UNION {[1..k -> Chars] : k \in 0..MaxText}

\* a text as one run, cut into two runs at any position, and no run at all
LineRuns ==
    {<<>>}
    \cup {<<text>> : text \in LineTexts}
    \cup UNION {{<<SubSeq(text, 1, k), SubSeq(text, k + 1, Len(text))>> :
                   k \in 0..Len(text)} : text \in LineTexts}

\* a line about to be measured
LineNew ==
    /\ line_runs \in LineRuns
    /\ line_width \in 0..MaxLineWidth
    /\ line_indent \in 0..MaxIndent
    /\ line_height = None
    /\ page_sections = SectionsFrom(<<>>)
    /\ width = 0
    /\ overflow_checks \in BOOLEAN
    /\ expand_to_fill = FALSE
    /\ measured = None
    /\ rendered = None

\* Section::height_line(line_width, line_indent, line_runs)
HeightLine ==
    /\ line_height = None
    /\ line_height' = Some(height_line(line_width, line_indent, line_runs))
    /\ UNCHANGED <<line_runs, line_width, line_indent>>

LineNext ==
    /\ HeightLine
    /\ UNCHANGED <<pages_vars, footnotes_vars, layout_vars, superscript_vars,
                   collect_vars, ui_vars, interpolate_vars,
                   merge_vars,
                   loop_vars>>

\* no line being measured
LineIdle ==
    /\ line_runs = <<>>
    /\ line_width = 0
    /\ line_indent = 0
    /\ line_height = None

(***************************************************************************)
(* configuration.rs: interpolate.  A string is the sequence of its         *)
(* characters; a range is its start and its end, counted from 0, the end   *)
(* excluded.                                                               *)
(***************************************************************************)
\* the match of next_replacement on a state and a character: BeforeStart,
\* Start(p), Key(p, k), or the ranges to return
next_replacement_match(state, i, c) ==
    CASE state[1] = "BeforeStart" /\ c = "$" -> <<"Start", i>>
      [] state[1] = "Start" /\ c = "{" -> <<"Key", state[2], i + 1>>
      [] state[1] = "Key" /\ c = "}" ->
            <<"Return", [replacement_range |-> <<state[2], i + 1>>,
                         key_range |-> <<state[3], i>>]>>
      [] state[1] = "Key" /\ c # "}" -> state
      [] OTHER -> <<"BeforeStart">>

\* the loop of next_replacement over string.chars().enumerate().skip(offset)
RECURSIVE next_replacement_loop(_, _, _)
next_replacement_loop(string, state, i) ==
    IF state[1] = "Return"
    THEN Some(state[2])
    ELSE IF i >= Len(string)
    THEN None
    ELSE next_replacement_loop(string, next_replacement_match(state, i, string[i + 1]),
                               i + 1)

\* next_replacement
next_replacement(offset, string) ==
    next_replacement_loop(string, <<"BeforeStart">>, offset)

\* &text[range]
slice(text, range) == SubSeq(text, range[1] + 1, range[2])

\* String::replace_range
replace_range(text, range, with) ==
    SubSeq(text, 1, range[1]) \o with \o SubSeq(text, range[2] + 1, Len(text))

\* the call of the closure `replacements`
replacements(key) ==
    IF key \in DOMAIN ip_replacements THEN ip_replacements[key] ELSE None

\* the tokens and the other text a string is made of
TokenA == <<"$", "{", "a", "}">>

TokenB == <<"$", "{", "b", "}">>

TokenEmpty == <<"$", "{", "}">>

Pieces == {TokenA, TokenB, TokenEmpty, <<"x">>, <<"$">>, <<",", " ">>}

\* the keys that may have a replacement, and the replacements
Keys == {<<"a">>, <<"b">>, <<>>}

Values == {<<>>, <<"A", "A">>, TokenA}

\* interpolate(string, replacements) is called
InterpolateNew ==
    /\ ip_pieces \in UNION {[1..n -> Pieces] : n \in 0..MaxPieces}
    /\ ip_replacements \in [Keys -> {None} \cup {Some(v) : v \in Values}]
    /\ ip_text = Concat(ip_pieces)
    /\ ip_index = 0
    /\ ip_state = "loop"

\* one turn of the while loop of interpolate: a token was found
InterpolateTurn ==
    /\ ip_state = "loop"
    /\ next_replacement(ip_index, ip_text) # None
    /\ IF replacements(slice(ip_text, unwrap(next_replacement(ip_index, ip_text)).key_range)) # None
       THEN /\ ip_index' =
                   ip_index
                   + unwrap(next_replacement(ip_index, ip_text)).replacement_range[1]
                   + Len(unwrap(replacements(slice(
                         ip_text,
                         unwrap(next_replacement(ip_index, ip_text)).key_range))))
            /\ ip_text' =
                   replace_range(
                       ip_text,
                       unwrap(next_replacement(ip_index, ip_text)).replacement_range,
                       unwrap(replacements(slice(
                           ip_text,
                           unwrap(next_replacement(ip_index, ip_text)).key_range))))
       ELSE /\ ip_index' =
                   ip_index
                   + unwrap(next_replacement(ip_index, ip_text)).replacement_range[1]
                   + Len(slice(ip_text,
                               unwrap(next_replacement(ip_index, ip_text)).key_range))
            /\ UNCHANGED ip_text
    /\ UNCHANGED <<ip_pieces, ip_replacements, ip_state>>

\* the end of the while loop: no token is found and text is returned
InterpolateReturn ==
    /\ ip_state = "loop"
    /\ next_replacement(ip_index, ip_text) = None
    /\ ip_state' = "done"
    /\ UNCHANGED <<ip_pieces, ip_replacements, ip_text, ip_index>>

InterpolateNext ==
    /\ \/ InterpolateTurn
       \/ InterpolateReturn
    /\ UNCHANGED <<pages_vars, footnotes_vars, layout_vars, superscript_vars,
                   collect_vars, ui_vars, line_vars, merge_vars,
                   loop_vars>>

\* interpolate is not called
InterpolateIdle ==
    /\ ip_pieces = <<>>
    /\ ip_replacements = [key \in Keys |-> None]
    /\ ip_text = <<>>
    /\ ip_index = 0
    /\ ip_state = "idle"

(***************************************************************************)
(* rupert-macros, partial.rs: the partial struct generated for a struct    *)
(* with the fields a, b and c of the example, and its merge.               *)
(***************************************************************************)
\* Option::or_else
or_else(option, f) == IF option # None THEN option ELSE f

\* the generated merge: field: other.field.or_else(|| self.field)
merge(self, other) ==
    [field \in DOMAIN self |-> or_else(other[field], self[field])]

\* the generated Default: every field None
partial_default == [a |-> None, b |-> None, c |-> None]

\* PartialStruct values: a: Option<bool>, b: Option<u32>, c: Option<String>
PartialStructs ==
    [a : {None, Some(FALSE), Some(TRUE)},
     b : {None, Some(0), Some(42)},
     c : {None, Some("c"), Some("d")}]

\* two partial structs about to be merged
MergeNew ==
    /\ merge_self \in PartialStructs
    /\ merge_other \in PartialStructs
    /\ merged = None

\* self.merge(other)
Merge ==
    /\ merged = None
    /\ merged' = Some(merge(merge_self, merge_other))
    /\ UNCHANGED <<merge_self, merge_other>>

MergeNext ==
    /\ Merge
    /\ UNCHANGED <<pages_vars, footnotes_vars, layout_vars, superscript_vars,
                   collect_vars, ui_vars, line_vars, interpolate_vars, loop_vars>>

\* nothing to merge
MergeIdle ==
    /\ merge_self = partial_default
    /\ merge_other = partial_default
    /\ merged = None

(***************************************************************************)
(* main.rs, ui.rs: run.  The commands dispatched are kept in a log.        *)
(***************************************************************************)
\* the events event::read() gives: keys, an event that is not a key, and a
\* failure to read
NavigationKeys == {"Left", "Backspace", "Right", "Enter"}

Events == NavigationKeys \cup {"q", "x", "Resize", "Err"}

\* `if let Ok(path) = path.as_ref().canonicalize()` around a dispatch
when_canonical(log, command) == IF path_ok THEN Append(log, command) ELSE log

\* Commands::initialize
commands_initialize(log) == when_canonical(log, <<"initialize">>)

\* Commands::update(path, page, pages)
commands_update(log, page, count) == when_canonical(log, <<"update", page, count>>)

\* Commands::finalize
commands_finalize(log) == when_canonical(log, <<"finalize">>)

\* KeyCode::Left | KeyCode::Backspace
key_back(page) == IF page > 0 THEN page - 1 ELSE page

\* KeyCode::Right | KeyCode::Enter without the check of the last page
key_forward_unchecked(page, len) == page + 1

\* KeyCode::Right | KeyCode::Enter
key_forward(page, len) == IF page < len - 1 THEN page + 1 ELSE page

\* the page after a key
key_page(page, len, key) ==
    CASE key \in {"Left", "Backspace"} -> key_back(page)
      [] key \in {"Right", "Enter"} -> key_forward(page, len)
      [] OTHER -> page

\* run of main.rs is about to check the pages of a presentation
LoopNew ==
    /\ ui_pages \in 0..MaxPages
    /\ path_ok \in BOOLEAN
    /\ ui_state = "main"
    /\ ui_page = 0
    /\ ui_event = ""
    /\ ui_turns = 0
    /\ ui_drawn = FALSE
    /\ ui_log = <<>>

\* run of main.rs: the pages are checked and ui::run is called
MainRun ==
    /\ ui_state = "main"
    /\ ui_state' = IF ui_pages < 1 THEN "rejected" ELSE "run"
    /\ UNCHANGED <<ui_pages, path_ok, ui_page, ui_event, ui_turns, ui_drawn, ui_log>>

\* ui::run up to the loop: Terminal::new()? and commands.initialize
RunStart ==
    /\ ui_state = "run"
    /\ \E terminal_ok \in BOOLEAN :
          IF terminal_ok
          THEN /\ ui_state' = "loop"
               /\ ui_log' = commands_initialize(ui_log)
          ELSE /\ ui_state' = "failed"
               /\ UNCHANGED ui_log
    /\ ui_page' = 0
    /\ UNCHANGED <<ui_pages, path_ok, ui_event, ui_turns, ui_drawn>>

\* one turn of the loop of ui::run: draw, read an event, handle it; after
\* `break` the finalize command and Ok(()), after a failed read Err
LoopTurn ==
    /\ ui_state = "loop"
    /\ \E event \in Events :
          /\ ui_turns < MaxEvents \/ event \in {"q", "Err"}
          /\ ui_event' = event
          /\ ui_page' = key_page(ui_page, ui_pages, event)
          /\ ui_state' = CASE event = "Err" -> "failed"
                           [] event = "q" -> "exited"
                           [] OTHER -> "loop"
          /\ ui_log' = CASE event \in NavigationKeys ->
                              commands_update(ui_log,
                                              key_page(ui_page, ui_pages, event) + 1,
                                              ui_pages)
                         [] event = "q" -> commands_finalize(ui_log)
                         [] OTHER -> ui_log
    /\ ui_turns' = ui_turns + 1
    /\ ui_drawn' = TRUE
    /\ UNCHANGED <<ui_pages, path_ok>>

LoopNext ==
    /\ \/ MainRun
       \/ RunStart
       \/ LoopTurn
    /\ UNCHANGED <<pages_vars, footnotes_vars, layout_vars, superscript_vars,
                   collect_vars, ui_vars, line_vars, interpolate_vars, merge_vars>>

\* no presentation shown
LoopIdle ==
    /\ ui_pages = 0
    /\ path_ok = FALSE
    /\ ui_state = "idle"
    /\ ui_page = 0
    /\ ui_event = ""
    /\ ui_turns = 0
    /\ ui_drawn = FALSE
    /\ ui_log = <<>>

(***************************************************************************)
(* presentation.rs                                                         *)
(***************************************************************************)
\* The NodeValue of a top-level node, as far as the page iterator reads it.
FrontMatterNode == [value |-> "FrontMatter", level |-> 0]

ContentNodes ==
    {[value |-> "Paragraph", level |-> 0], [value |-> "ThematicBreak", level |-> 0]}
    \cup {[value |-> "Heading", level |-> l] : l \in 1..MaxLevel}

\* load: comrak parses front matter (delimiter "%%%") only at the start of
\* the text, so a FrontMatter node is the first child of the root or absent.
Bodies == UNION {[1..n -> ContentNodes] : n \in 0..MaxDoc}

Documents == Bodies \cup {<<FrontMatterNode>> \o b : b \in Bodies}

\* PageBreakCondition
BreakConditions ==
    {[type |-> "thematic_break", level |-> 0]}
    \cup {[type |-> "heading", level |-> l] : l \in 1..MaxLevel}

\* Node::first_child of the root and Node::next_sibling; a node is its
\* position among the root's children.
first_child(d) == IF Len(d) > 0 THEN Some(1) ELSE None

next_sibling(d, node) == IF node < Len(d) THEN Some(node + 1) ELSE None

\* PageBreakCondition::try_break
try_break_any_heading(cond, d, node) ==
    IF cond.type = "thematic_break"
    THEN IF d[node].value = "ThematicBreak" THEN next_sibling(d, node) ELSE None
    ELSE IF d[node].value = "Heading" THEN Some(node) ELSE None

try_break(cond, d, node) ==
    IF cond.type = "thematic_break"
    THEN IF d[node].value = "ThematicBreak" THEN next_sibling(d, node) ELSE None
    ELSE IF d[node].value = "Heading" /\ d[node].level = cond.level
         THEN Some(node)
         ELSE None

\* the test `if let NodeValue::FrontMatter(_)` of PageIterator::next
never_front_matter(n) == FALSE

is_front_matter(n) == n.value = "FrontMatter"

\* The loop of PageIterator::next from `current` with `nodes` collected.
\* returned: FALSE when the `?` on a front matter node without next sibling
\* leaves next() with None, dropping `nodes` and not assigning self.next.
RECURSIVE page_loop(_, _, _, _)
page_loop(d, cond, current, nodes) ==
    IF is_front_matter(d[current])
    THEN IF next_sibling(d, current) = None
         THEN [returned |-> FALSE, nodes |-> nodes, next |-> None]
         ELSE page_loop(d, cond, unwrap(next_sibling(d, current)), nodes)
    ELSE LET pushed == Append(nodes, current)
             sibling == next_sibling(d, current)
         IN  IF sibling # None
             THEN LET next == try_break(cond, d, unwrap(sibling))
                  IN  IF next # None
                      THEN [returned |-> TRUE, nodes |-> pushed, next |-> next]
                      ELSE page_loop(d, cond, unwrap(sibling), pushed)
             ELSE [returned |-> TRUE, nodes |-> pushed, next |-> None]

\* PageIterator::new, for every document and break condition
PageIteratorNew ==
    /\ doc \in Documents
    /\ break_condition \in BreakConditions
    /\ it_next = first_child(doc)
    /\ it_result = "NotCalled"
    /\ pages = <<>>

\* PageIterator::next, restarting at the first child once it is exhausted
PageIteratorNextRestart ==
    /\ IF it_next = None
       THEN /\ it_result' = "None"
            /\ it_next' = first_child(doc)
            /\ UNCHANGED pages
       ELSE LET r == page_loop(doc, break_condition, unwrap(it_next), <<>>)
            IN  IF r.returned
                THEN /\ it_next' = r.next
                     /\ it_result' = "Some"
                     /\ pages' = Append(pages, r.nodes)
                ELSE /\ it_result' = "None"
                     /\ UNCHANGED <<it_next, pages>>
    /\ UNCHANGED <<doc, break_condition>>

\* PageIterator::next
PageIteratorNext ==
    /\ IF it_next = None
       THEN /\ it_result' = "None"
            /\ UNCHANGED <<it_next, pages>>
       ELSE LET r == page_loop(doc, break_condition, unwrap(it_next), <<>>)
            IN  IF r.returned
                THEN /\ it_next' = r.next
                     /\ it_result' = "Some"
                     /\ pages' = Append(pages, r.nodes)
                ELSE /\ it_result' = "None"
                     /\ UNCHANGED <<it_next, pages>>
    /\ UNCHANGED <<doc, break_condition>>

PagesNext ==
    /\ PageIteratorNext
    /\ UNCHANGED <<footnotes_vars, layout_vars, superscript_vars, collect_vars, ui_vars,
                   line_vars,
                   interpolate_vars,
                   merge_vars,
                   loop_vars>>

\* no document loaded
PagesIdle ==
    /\ doc = <<>>
    /\ break_condition = [type |-> "thematic_break", level |-> 0]
    /\ it_next = None
    /\ it_result = "NotCalled"
    /\ pages = <<>>

\* nothing to lay out
LayoutIdle ==
    /\ page_sections = SectionsFrom(<<>>)
    /\ width = 0
    /\ overflow_checks = FALSE
    /\ expand_to_fill = FALSE
    /\ measured = None
    /\ rendered = None

(***************************************************************************)
(* transform.rs: the transform of the nodes of a page into Sections.  A    *)
(* node is a record of its kind, its children and the fields of its        *)
(* NodeValue; a Style is its foreground and its set of modifiers; a Span   *)
(* of the transform is its content and its style.  A panic leaves          *)
(* panicked set, and nothing is done after it.                             *)
(***************************************************************************)
\* Style::default and the styles of the configuration; the heading styles
\* of the six levels are six different prefixes and styles
style_default == [fg |-> "reset", modifiers |-> {}]

heading_style(n) ==
    [prefix |-> <<"prefix", n>>, style |-> [fg |-> <<"heading", n>>, modifiers |-> {}]]

configuration ==
    [default_style |-> [fg |-> "default", modifiers |-> {}],
     heading_style1 |-> heading_style(1),
     heading_style2 |-> heading_style(2),
     heading_style3 |-> heading_style(3),
     heading_style4 |-> heading_style(4),
     heading_style5 |-> heading_style(5),
     heading_style6 |-> heading_style(6)]

\* Style::add_modifier and Style::fg
add_modifier(style, modifier) ==
    [style EXCEPT !.modifiers = @ \cup {modifier}]

fg(style, color) == [style EXCEPT !.fg = color]

\* Span::styled and Span::raw
SpanStyled(content, style) == [content |-> content, style |-> style]

SpanRaw(content) == [content |-> content, style |-> style_default]

\* the result of a step of the transform
Transformed(context, target) ==
    [context |-> context, target |-> target, panicked |-> FALSE]

\* a panic that is swallowed
PanicIgnored(context, target) ==
    [context |-> context, target |-> target, panicked |-> FALSE]

\* panic!() and unimplemented!()
Panicked(context, target) ==
    [context |-> context, target |-> target, panicked |-> TRUE]

RECURSIVE inline(_, _, _, _)
RECURSIVE inlines_fold(_, _, _, _)
\* inlines and root_inlines: inline() on every node, in order
inlines_fold(context, nodes, target, style) ==
    IF nodes = <<>>
    THEN Transformed(context, target)
    ELSE LET r == inline(context, Head(nodes), target, style)
         IN  IF r.panicked
             THEN r
             ELSE inlines_fold(r.context, Tail(nodes), r.target, style)

\* the style inline() hands to inlines() for the children of the node
inline_child_style(source, style) ==
    CASE source.kind = "Emph" -> add_modifier(style, "ITALIC")
      [] source.kind = "Link" -> fg(add_modifier(style, "UNDERLINED"), "Blue")
      [] source.kind = "Strong" -> add_modifier(style, "BOLD")
      [] source.kind = "Strikethrough" -> add_modifier(style, "CROSSED_OUT")
      [] OTHER -> style

\* the match of inline() on the node; `spans` is what its call of inlines()
\* on the children gives
inline_match(context, source, target, style, spans) ==
        CASE source.kind = "Code" ->
                Transformed(context, Append(target, SpanRaw(source.literal)))
          [] source.kind \in {"Emph", "Strong", "Strikethrough"} -> spans
          [] source.kind = "FootnoteReference" ->
                LET r == reference(context, source.name)
                IN  Transformed(r.self,
                                Append(target, SpanRaw(index_to_superscript(r.ret))))
          [] source.kind = "LineBreak" ->
                Transformed(context, Append(target, SpanRaw("\n")))
          [] source.kind = "Link" ->
                IF spans.panicked
                THEN spans
                ELSE Transformed(spans.context,
                                 Append(spans.target,
                                        SpanStyled(<<" <", source.url, ">">>, style)))
          [] source.kind = "SoftBreak" ->
                Transformed(context, Append(target, SpanRaw(" ")))
          [] source.kind = "Text" ->
                Transformed(context, Append(target, SpanStyled(source.text, style)))
          [] OTHER -> Panicked(context, target)

\* inline
inline(context, source, target, style) ==
    inline_match(context, source, target, style,
                 inlines_fold(context, source.children, target,
                              inline_child_style(source, style)))

\* LinesWithEndings::from(text): the lines of the text, each with its line
\* feed; `line` is the line being read
RECURSIVE lines_with_endings(_, _)
lines_with_endings(text, line) ==
    IF text = <<>>
    THEN IF line = <<>> THEN <<>> ELSE <<line>>
    ELSE IF Head(text) = "\n"
         THEN <<Append(line, "\n")>> \o lines_with_endings(Tail(text), <<>>)
         ELSE lines_with_endings(Tail(text), Append(line, Head(text)))

\* str::lines: the lines of the text without their line feeds; a last line
\* that is empty is not a line
RECURSIVE str_lines(_, _)
str_lines(text, line) ==
    IF text = <<>>
    THEN IF line = <<>> THEN <<>> ELSE <<line>>
    ELSE IF Head(text) = "\n"
         THEN <<line>> \o str_lines(Tail(text), <<>>)
         ELSE str_lines(Tail(text), Append(line, Head(text)))

\* Text::raw: a line of one raw span for every line of the text
TextRaw(text) ==
    [l \in 1..Len(str_lines(text, <<>>)) |-> <<SpanRaw(str_lines(text, <<>>)[l])>>]

\* the lines of a code block whose every line the highlighter has styled:
\* a span per styled region, here one for a line, with a line feed added
highlighted(text) ==
    [l \in 1..Len(lines_with_endings(text, <<>>)) |->
        <<SpanStyled(Append(lines_with_endings(text, <<>>)[l], "\n"),
                     [fg |-> "theme", modifiers |-> {}])>>]

\* the text of a code block that is left empty when the highlighter fails
code_text_or_nothing(literal, highlight_ok) ==
    IF highlight_ok THEN highlighted(literal) ELSE <<>>

\* match lines { Ok(lines) => Text { lines }, Err(_) => Text::raw(text) }
code_text(literal, highlight_ok) ==
    IF highlight_ok THEN highlighted(literal) ELSE TextRaw(literal)

\* the ordinals given by position among all the sections
RECURSIVE list_item_reorder_by_position(_, _)
list_item_reorder_by_position(sections_, start_at) ==
    IF sections_ = <<>>
    THEN <<>>
    ELSE <<IF Head(sections_).kind = "ListItemOrdered"
           THEN [Head(sections_) EXCEPT !.ordinal = start_at]
           ELSE Head(sections_)>>
         \o list_item_reorder_by_position(Tail(sections_), start_at + 1)

\* Sections::list_item_reorder, on the sections of the Sections
RECURSIVE list_item_reorder(_, _)
list_item_reorder(sections_, start_at) ==
    IF sections_ = <<>>
    THEN <<>>
    ELSE IF Head(sections_).kind = "ListItemOrdered"
         THEN <<[Head(sections_) EXCEPT !.ordinal = start_at]>>
              \o list_item_reorder(Tail(sections_), start_at + 1)
         ELSE <<Head(sections_)>> \o list_item_reorder(Tail(sections_), start_at)

\* the two matches on heading.level in section(): the prefix and the style
heading_style_for(level) ==
    CASE level = 1 -> configuration.heading_style1
      [] level = 2 -> configuration.heading_style2
      [] level = 3 -> configuration.heading_style3
      [] level = 4 -> configuration.heading_style4
      [] level = 5 -> configuration.heading_style1
      [] level = 6 -> configuration.heading_style6

\* target.last_mut() is a Section::Table
last_is_table(target) ==
    Len(target) > 0 /\ target[Len(target)].kind = "Table"

RECURSIVE section(_, _, _, _)
RECURSIVE sections_fold(_, _, _, _)
\* sections and the loop of from_page: section() on every node, in order
sections_fold(context, nodes, target, style) ==
    IF nodes = <<>>
    THEN Transformed(context, target)
    ELSE LET r == section(context, Head(nodes), target, style)
         IN  IF r.panicked
             THEN r
             ELSE sections_fold(r.context, Tail(nodes), r.target, style)

\* the style section() hands to sections() or root_inlines() for the
\* children of the node
section_child_style(source, style) ==
    CASE source.kind = "BlockQuote" ->
            add_modifier(add_modifier(style, "DIM"), "ITALIC")
      [] source.kind = "FootnoteDefinition" -> add_modifier(style, "DIM")
      [] source.kind = "Heading" /\ source.level \in 1..6 ->
            heading_style_for(source.level).style
      [] OTHER -> style

\* the target section() hands to sections() for the children of the node
section_child_target(source, target) ==
    CASE source.kind = "Table" -> Append(target, Table(<<>>))
      [] source.kind = "TableRow" /\ last_is_table(target) ->
            [target EXCEPT ![Len(target)].rows =
                Append(@, TableRow(source.header, <<>>))]
      [] OTHER -> <<>>

\* the match of section() on the node; `blocks` is what its call of
\* sections() and `spans` what its call of root_inlines() on the children
\* gives
section_match(context, source, target, blocks, spans) ==
        CASE source.kind = "BlockQuote" ->
                IF blocks.panicked
                THEN Panicked(blocks.context, target)
                ELSE Transformed(blocks.context,
                                 Append(target, BlockQuote(SectionsFrom(blocks.target))))
          [] source.kind = "CodeBlock" ->
                Transformed(context,
                            Append(target,
                                   Code(code_text(source.literal,
                                                  source.highlight_ok))))
          [] source.kind = "FrontMatter" -> Transformed(context, target)
          [] source.kind = "FootnoteDefinition" ->
                IF blocks.panicked
                THEN Panicked(blocks.context, target)
                ELSE Transformed(definition(blocks.context, source.name,
                                            SectionsFrom(blocks.target)).self,
                                 target)
          [] source.kind = "Heading" ->
                IF source.level \notin 1..6
                THEN Panicked(context, target)
                ELSE IF spans.panicked
                THEN Panicked(spans.context, target)
                ELSE Transformed(
                         spans.context,
                         Append(target,
                                Heading(<<SpanRaw(heading_style_for(source.level).prefix)>>
                                            \o spans.target,
                                        source.level)))
          [] source.kind = "Item" ->
                IF blocks.panicked
                THEN Panicked(blocks.context, target)
                ELSE Transformed(
                         blocks.context,
                         Append(target,
                                IF source.list_type = "Ordered"
                                THEN ListItemOrdered(SectionsFrom(blocks.target), 0,
                                                     IF source.delimiter = "Period"
                                                     THEN "." ELSE ")")
                                ELSE ListItemUnordered(SectionsFrom(blocks.target),
                                                       source.bullet_char)))
          [] source.kind = "List" ->
                IF blocks.panicked
                THEN Panicked(blocks.context, target)
                ELSE Transformed(
                         blocks.context,
                         Append(target,
                                List(ListContent(list_item_reorder(blocks.target,
                                                                   source.start)))))
          [] source.kind = "Paragraph" ->
                IF spans.panicked
                THEN Panicked(spans.context, target)
                ELSE Transformed(spans.context,
                                 Append(target, Paragraph(<<spans.target>>)))
          [] source.kind = "Table" -> blocks
          [] source.kind = "TableCell" ->
                IF last_is_table(target) /\ Len(target[Len(target)].rows) > 0
                THEN IF spans.panicked
                     THEN Panicked(spans.context, target)
                     ELSE Transformed(
                              spans.context,
                              [target EXCEPT
                                  ![Len(target)].rows[Len(target[Len(target)].rows)].cells =
                                      Append(@, <<spans.target>>)])
                ELSE Transformed(context, target)
          [] source.kind = "TableRow" ->
                IF last_is_table(target) THEN blocks ELSE Transformed(context, target)
          [] source.kind = "ThematicBreak" ->
                Transformed(context, Append(target, ThematicBreak))
          [] OTHER -> Panicked(context, target)

\* section
section(context, source, target, style) ==
    section_match(context, source, target,
                  sections_fold(context, source.children,
                                section_child_target(source, target),
                                section_child_style(source, style)),
                  inlines_fold(context, source.children, <<>>,
                               section_child_style(source, style)))

\* sections.into() at the end of Sections::from_page
from_page_into(r) ==
    [context |-> r.context, sections |-> SectionsFrom(r.target),
     panicked |-> r.panicked]

\* Sections::from_page
from_page(context, page) ==
    from_page_into(sections_fold(context, page, <<>>, configuration.default_style))

(***************************************************************************)
(* The presentations that are collected: documents of footnote references  *)
(* and definitions split into pages, and documents of the other kinds of   *)
(* nodes.                                                                  *)
(***************************************************************************)
Node(kind, children) == [kind |-> kind, children |-> children]

TextNode(text) == [kind |-> "Text", children |-> <<>>, text |-> text]

ParagraphNode(children) == Node("Paragraph", children)

FootnoteReferenceNode(name) ==
    [kind |-> "FootnoteReference", children |-> <<>>, name |-> name]

FootnoteDefinitionNode(name, children) ==
    [kind |-> "FootnoteDefinition", children |-> children, name |-> name]

HeadingNode(level, children) ==
    [kind |-> "Heading", children |-> children, level |-> level]

ItemNode(list_type, children) ==
    [kind |-> "Item", children |-> children, list_type |-> list_type,
     delimiter |-> "Period", bullet_char |-> "-"]

ListNode(start, children) ==
    [kind |-> "List", children |-> children, start |-> start]

CodeBlockNode(literal, highlight_ok) ==
    [kind |-> "CodeBlock", children |-> <<>>, literal |-> literal,
     highlight_ok |-> highlight_ok]

TableNode(children) == Node("Table", children)

TableRowNode(header, children) ==
    [kind |-> "TableRow", children |-> children, header |-> header]

\* a paragraph that refers to a footnote, and the definition of a footnote
FootnoteNodes ==
    {ParagraphNode(<<TextNode("t"), FootnoteReferenceNode(name)>>) : name \in Names}
    \cup {FootnoteDefinitionNode(name, <<ParagraphNode(<<TextNode(content)>>)>>) :
            name \in Names, content \in Contents}

\* the pages a sequence of nodes is split into when a new page starts
\* before every node whose index is in `starts`
RECURSIVE split_pages(_, _, _, _)
split_pages(nodes, starts, i, page) ==
    IF i > Len(nodes)
    THEN <<page>>
    ELSE IF i \in starts
         THEN <<page>> \o split_pages(nodes, starts, i + 1, <<nodes[i]>>)
         ELSE split_pages(nodes, starts, i + 1, Append(page, nodes[i]))

\* the presentations of at most MaxNodes footnote nodes, on pages none of
\* which is empty
FootnotePresentations ==
    UNION {{split_pages(nodes, starts, 2, <<nodes[1]>>) :
               nodes \in [1..k -> FootnoteNodes], starts \in SUBSET (2..k)} :
           k \in 1..MaxNodes}

\* the heading levels: those of markdown and one beyond either end
HeadingNodes ==
    {HeadingNode(level, children) :
        level \in 0..7,
        children \in {<<TextNode("t")>>,
                      <<Node("Emph", <<TextNode("t")>>), TextNode("u")>>}}

\* lists of ordered and other items
ListItemNodes ==
    {ItemNode(list_type, <<ParagraphNode(<<TextNode("t")>>)>>) :
        list_type \in {"Ordered", "Bullet"}}

ListNodes ==
    {ListNode(start, children) :
        start \in 0..MaxStart,
        children \in UNION {[1..k -> ListItemNodes] : k \in 0..MaxItems}}

\* code blocks and what the highlighter makes of them
CodeLiterals == UNION {[1..k -> {"x", "\n"}] : k \in 0..MaxText}

CodeBlockNodes ==
    {CodeBlockNode(literal, highlight_ok) :
        literal \in CodeLiterals, highlight_ok \in BOOLEAN}

\* the node kinds that section() and inline() do not support
UnsupportedBlockKinds ==
    {"DescriptionList", "DescriptionItem", "DescriptionTerm", "DescriptionDetails",
     "HtmlBlock", "Document"}

UnsupportedInlineKinds ==
    {"Superscript", "TaskItem", "HtmlInline", "Image", "Document"}

UnsupportedNodes ==
    {Node(kind, <<>>) : kind \in UnsupportedBlockKinds}
    \cup {ParagraphNode(<<TextNode("t"), Node(kind, <<>>)>>) :
            kind \in UnsupportedInlineKinds}
    \cup {Node("BlockQuote", <<Node("HtmlBlock", <<>>)>>),
          ListNode(1, <<ItemNode("Ordered", <<Node("HtmlBlock", <<>>)>>)>>),
          TableNode(<<TableRowNode(TRUE, <<Node("TableCell",
                                                 <<Node("Image", <<>>)>>)>>)>>),
          FootnoteDefinitionNode("a", <<Node("HtmlBlock", <<>>)>>)}

\* nodes of the other supported kinds
SupportedNodes ==
    {Node("FrontMatter", <<>>),
     Node("ThematicBreak", <<>>),
     FootnoteDefinitionNode("a", <<ParagraphNode(<<TextNode("s1")>>)>>),
     ParagraphNode(<<TextNode("t"), Node("SoftBreak", <<>>),
                     Node("Strong", <<TextNode("u")>>), Node("LineBreak", <<>>),
                     [kind |-> "Code", children |-> <<>>, literal |-> "c"],
                     [kind |-> "Link", children |-> <<TextNode("l")>>, url |-> "url"],
                     Node("Strikethrough", <<TextNode("v")>>)>>),
     Node("BlockQuote", <<ParagraphNode(<<TextNode("t")>>)>>),
     TableNode(<<TableRowNode(TRUE, <<Node("TableCell", <<TextNode("h")>>)>>),
                 TableRowNode(FALSE, <<Node("TableCell", <<TextNode("c")>>)>>)>>)}

BlockNodes ==
    HeadingNodes \cup ListNodes \cup CodeBlockNodes \cup UnsupportedNodes
    \cup SupportedNodes

\* a few nodes to stand beside any other
ShortNodes ==
    {ParagraphNode(<<TextNode("t")>>),
     Node("HtmlBlock", <<>>),
     HeadingNode(1, <<TextNode("t")>>),
     CodeBlockNode(<<"x", "\n">>, FALSE)}

\* a page of one node, or of two of which one is short
BlockPages ==
    {<<n>> : n \in BlockNodes}
    \cup {<<n, s>> : n \in BlockNodes, s \in ShortNodes}
    \cup {<<s, n>> : n \in BlockNodes, s \in ShortNodes}

\* a presentation of one page, or of two of which one is short
BlockPresentations ==
    {<<page>> : page \in BlockPages}
    \cup {<<page, <<s>>>> : page \in BlockPages, s \in ShortNodes}
    \cup {<<<<s>>, page>> : page \in BlockPages, s \in ShortNodes}

(***************************************************************************)
(* main.rs and widget.rs: run() collects the pages into page widgets and   *)
(* enters the user interface.                                              *)
(***************************************************************************)
\* run() with the pages of the presentation, before PageCollector::collect
PageCollectorNew ==
    /\ run_pages \in FootnotePresentations \cup BlockPresentations
    /\ run_state = "collect"
    /\ collector = [context |-> footnotes_default, sections |-> <<>>,
                    footnotes |-> <<>>]
    /\ widgets = None

\* the closure folded by PageCollector::collect, after Sections::from_page
\* gave `r`: the sections and the extracted references are pushed, unless
\* the transform panicked
collect_push(r) ==
    IF r.panicked
    THEN /\ run_state' = "panicked"
         /\ UNCHANGED collector
    ELSE /\ \E order \in iteration_orders(r.context.references) :
               collector' =
                   [context |-> extract_references(r.context, order).self,
                    sections |-> Append(collector.sections, r.sections),
                    footnotes |-> Append(collector.footnotes,
                                         extract_references(r.context, order).ret)]
         /\ UNCHANGED run_state

\* the fold of PageCollector::collect over one page: Sections::from_page
\* and Footnotes::extract_references
CollectPage ==
    /\ run_state = "collect"
    /\ Len(collector.sections) < Len(run_pages)
    /\ collect_push(from_page(collector.context,
                              run_pages[Len(collector.sections) + 1]))
    /\ UNCHANGED <<run_pages, widgets>>

\* the footnotes of a page in PageCollector::finish: filter_map over the
\* indices of the page
RECURSIVE footnote_listing(_, _)
footnote_listing(context, indices) ==
    IF indices = <<>>
    THEN <<>>
    ELSE IF lookup(context, Head(indices)) # None
         THEN <<<<index_to_superscript(Head(indices)),
                  unwrap(lookup(context, Head(indices)))>>>>
              \o footnote_listing(context, Tail(indices))
         ELSE footnote_listing(context, Tail(indices))

\* PageCollector::finish, once collect has folded every page
Finish ==
    /\ run_state = "collect"
    /\ Len(collector.sections) = Len(run_pages)
    /\ widgets' =
           Some([p \in 1..Len(collector.sections) |->
                    [sections |-> collector.sections[p],
                     footnotes |-> footnote_listing(collector.context,
                                                    collector.footnotes[p])]])
    /\ run_state' = "finished"
    /\ UNCHANGED <<run_pages, collector>>

\* ui::run with the page widgets
UiRun ==
    /\ run_state = "finished"
    /\ run_state' = "ui"
    /\ UNCHANGED <<run_pages, collector, widgets>>

CollectNext ==
    /\ \/ CollectPage
       \/ Finish
       \/ UiRun
    /\ UNCHANGED <<pages_vars, footnotes_vars, layout_vars, superscript_vars, ui_vars,
                   line_vars,
                   interpolate_vars,
                   merge_vars,
                   loop_vars>>

\* no presentation loaded
CollectIdle ==
    /\ run_pages = <<>>
    /\ run_state = "collect"
    /\ collector = [context |-> footnotes_default, sections |-> <<>>,
                    footnotes |-> <<>>]
    /\ widgets = None

(***************************************************************************)
(* The specifications.                                                     *)
(***************************************************************************)
PagesInit ==
    /\ PageIteratorNew /\ FootnotesNew /\ LayoutIdle /\ SuperscriptIdle /\ CollectIdle
    /\ FrameIdle
    /\ LineIdle
    /\ InterpolateIdle
    /\ MergeIdle
    /\ LoopIdle

PagesSpec == PagesInit /\ [][PagesNext]_vars

FootnotesInit ==
    /\ FootnotesNew /\ PagesIdle /\ LayoutIdle /\ SuperscriptIdle /\ CollectIdle
    /\ FrameIdle
    /\ LineIdle
    /\ InterpolateIdle
    /\ MergeIdle
    /\ LoopIdle

FootnotesSpec == FootnotesInit /\ [][FootnotesNext]_vars

LayoutInit ==
    /\ LayoutNew /\ PagesIdle /\ FootnotesNew /\ SuperscriptIdle /\ CollectIdle
    /\ FrameIdle
    /\ LineIdle
    /\ InterpolateIdle
    /\ MergeIdle
    /\ LoopIdle

LayoutSpec == LayoutInit /\ [][LayoutNext]_vars

SuperscriptInit ==
    /\ SuperscriptNew /\ PagesIdle /\ FootnotesNew /\ LayoutIdle /\ CollectIdle
    /\ FrameIdle
    /\ LineIdle
    /\ InterpolateIdle
    /\ MergeIdle
    /\ LoopIdle

SuperscriptSpec == SuperscriptInit /\ [][SuperscriptNext]_vars

CollectInit ==
    /\ PageCollectorNew /\ PagesIdle /\ FootnotesNew /\ LayoutIdle /\ SuperscriptIdle
    /\ FrameIdle
    /\ LineIdle
    /\ InterpolateIdle
    /\ MergeIdle
    /\ LoopIdle

CollectSpec == CollectInit /\ [][CollectNext]_vars

FrameInit ==
    /\ FrameNew /\ PagesIdle /\ FootnotesNew /\ SuperscriptIdle /\ CollectIdle
    /\ LineIdle
    /\ InterpolateIdle
    /\ MergeIdle
    /\ LoopIdle

FrameSpec == FrameInit /\ [][FrameNext]_vars

LineInit ==
    /\ LineNew /\ PagesIdle /\ FootnotesNew /\ SuperscriptIdle /\ CollectIdle
    /\ FrameIdle
    /\ InterpolateIdle
    /\ MergeIdle
    /\ LoopIdle

LineSpec == LineInit /\ [][LineNext]_vars

InterpolateInit ==
    /\ InterpolateNew /\ PagesIdle /\ FootnotesNew /\ LayoutIdle /\ SuperscriptIdle
    /\ CollectIdle
    /\ FrameIdle
    /\ LineIdle
    /\ MergeIdle
    /\ LoopIdle

InterpolateSpec == InterpolateInit /\ [][InterpolateNext]_vars

MergeInit ==
    /\ MergeNew /\ PagesIdle /\ FootnotesNew /\ LayoutIdle /\ SuperscriptIdle
    /\ CollectIdle
    /\ FrameIdle
    /\ LineIdle
    /\ InterpolateIdle
    /\ LoopIdle

MergeSpec == MergeInit /\ [][MergeNext]_vars

LoopInit ==
    /\ LoopNew /\ PagesIdle /\ FootnotesNew /\ LayoutIdle /\ SuperscriptIdle
    /\ CollectIdle
    /\ FrameIdle
    /\ LineIdle
    /\ InterpolateIdle
    /\ MergeIdle

LoopSpec == LoopInit /\ [][LoopNext]_vars

\* the loop of interpolate keeps running until it returns
InterpolateLiveSpec == InterpolateSpec /\ WF_vars(InterpolateNext)

(***************************************************************************)
(* Properties of the layout.                                               *)
(***************************************************************************)
\* C1: the rows that Sections::render has drawn into, in an area of the
\* width that is tall enough, counted from the top of the area to the last
\* row drawn, are as many as Sections::height gives for the width.
C1_HeightEqualsRenderedRows ==
    (measured # None /\ rendered # None) => unwrap(rendered) = unwrap(measured)

(***************************************************************************)
(* Properties of the footnote table.                                       *)
(***************************************************************************)
Range(seq) == {seq[i] : i \in 1..Len(seq)}

StrictlyAscending(seq) == \A i \in 1..(Len(seq) - 1) : seq[i] < seq[i + 1]

Assigned == {n \in Names : first_index[n] # None}

\* the index the table holds for a name it knows
IndexOf(n) == unwrap(first_index[n])

\* C7: a reference or definition of a name returns the index that the first
\* reference or definition of that name returned, the name stands at that
\* index of the table, and no two names have the same index.
C7_OneIndexPerName ==
    /\ fn_call.op \in {"reference", "definition"} =>
           first_index[fn_call.name] = Some(fn_call.ret)
    /\ \A n \in Assigned : position(footnotes.data, n) = first_index[n]
    /\ \A n, m \in Assigned : n # m => IndexOf(n) # IndexOf(m)

\* a name that had its index before the call is referenced again and gets
\* it again, another name holding another index
C7_Witness ==
    /\ fn_call.op = "reference"
    /\ position(fn_call.before.data, fn_call.name) = Some(fn_call.ret)
    /\ fn_call.ret = 1
    /\ Cardinality(Assigned) = 2

\* C8: definition returns the index that reference would return, afterwards
\* lookup of that index gives the content just passed (replacing any earlier
\* content), and every other footnote keeps its name and content.
C8_DefinitionAttachesContent ==
    fn_call.op = "definition" =>
        /\ fn_call.ret = reference(fn_call.before, fn_call.name).ret
        /\ lookup(footnotes, fn_call.ret) = Some(fn_call.sections)
        /\ Len(footnotes.data) =
               Len(reference(fn_call.before, fn_call.name).self.data)
        /\ \A i \in 1..Len(fn_call.before.data) :
               /\ footnotes.data[i][1] = fn_call.before.data[i][1]
               /\ i - 1 # fn_call.ret =>
                      footnotes.data[i][2] = fn_call.before.data[i][2]

\* a second definition of a name replaces other content, next to another
\* defined footnote
C8_Witness ==
    /\ fn_call.op = "definition"
    /\ lookup(fn_call.before, fn_call.ret) # None
    /\ lookup(fn_call.before, fn_call.ret) # Some(fn_call.sections)
    /\ \E i \in 0..MaxNames : i # fn_call.ret /\ lookup(footnotes, i) # None

\* C9: lookup gives content exactly for the indices of the names that were
\* passed to definition, and None for every other index, assigned or not; a
\* lookup call returns just that.
C9_LookupOnlyDefined ==
    /\ \A index \in 0..(MaxNames + 1) :
           lookup(footnotes, index) # None
               <=> \E n \in defined : first_index[n] = Some(index)
    /\ fn_call.op = "lookup" =>
           (fn_call.ret # None
               <=> \E n \in defined : first_index[n] = Some(fn_call.index))

\* lookup of a footnote that was referenced, not defined, returns None while
\* another footnote is defined
C9_Witness ==
    /\ fn_call.op = "lookup"
    /\ fn_call.ret = None
    /\ \E n \in Assigned \ defined : IndexOf(n) = fn_call.index
    /\ defined # {}

\* C10: extract_references returns the indices of the names referenced
\* since the previous extract_references, each once and strictly ascending,
\* and leaves the reference set empty; with no reference in between (also
\* after definitions) it returns the empty sequence.
C10_ExtractSortedAndCleared ==
    fn_call.op = "extract_references" =>
        /\ StrictlyAscending(fn_call.ret)
        /\ Range(fn_call.ret) = {IndexOf(n) : n \in Range(fn_call.log)}
        /\ footnotes.references = {}
        /\ ref_log = <<>>
        /\ fn_call.log = <<>> => fn_call.ret = <<>>

\* the references came in descending index order with one name repeated,
\* and both indices are returned
C10_Witness ==
    /\ fn_call.op = "extract_references"
    /\ Len(fn_call.log) = 3
    /\ IndexOf(fn_call.log[1]) > IndexOf(fn_call.log[2])
    /\ fn_call.ret = <<0, 1>>

(***************************************************************************)
(* Properties of the page iterator.                                        *)
(***************************************************************************)
\* the nodes of d, in document order, and those of them that satisfy keep
Indices(d) == [i \in 1..Len(d) |-> i]

IsBreakHeading(n) == n.value = "Heading" /\ n.level = break_condition.level

BreakHeadings == SelectSeq(Indices(doc), LAMBDA i : IsBreakHeading(doc[i]))

ContentIndices == SelectSeq(Indices(doc), LAMBDA i : doc[i].value # "FrontMatter")

StartsWithBreakHeading ==
    ContentIndices # <<>> /\ IsBreakHeading(doc[ContentIndices[1]])

\* C2: with the break condition Heading{level = L} every page after the
\* first begins with a level-L heading, no level-L heading stands at a later
\* position of a page, and once the iterator is exhausted a document that
\* starts with a level-L heading has one page per level-L heading, the i-th
\* page beginning at the i-th such heading.
C2_HeadingPages ==
    break_condition.type = "heading" =>
        /\ \A p \in 2..Len(pages) : IsBreakHeading(doc[pages[p][1]])
        /\ \A p \in 1..Len(pages) : \A j \in 2..Len(pages[p]) :
               ~IsBreakHeading(doc[pages[p][j]])
        /\ (it_result = "None" /\ StartsWithBreakHeading) =>
               /\ Len(pages) = Len(BreakHeadings)
               /\ \A i \in 1..Len(pages) : pages[i][1] = BreakHeadings[i]

\* the tested case: two level-L headings, each followed by other content,
\* give two pages
C2_Witness ==
    /\ break_condition.type = "heading"
    /\ it_result = "None"
    /\ StartsWithBreakHeading
    /\ Len(BreakHeadings) = 2
    /\ Len(pages) = 2
    /\ Len(pages[1]) = 2
    /\ Len(pages[2]) = 2

\* C3: with the break condition ThematicBreak no page contains a thematic
\* break node.
C3_NoThematicBreakInPage ==
    break_condition.type = "thematic_break" =>
        \A p \in 1..Len(pages) : \A j \in 1..Len(pages[p]) :
            doc[pages[p][j]].value # "ThematicBreak"

\* C4: once the iterator is exhausted it has yielded at least one page
\* exactly when the document has a node that is not front matter; before
\* that, a page has been yielded only if there is such a node.
C4_PagesIffContent ==
    /\ Len(pages) >= 1 => ContentIndices # <<>>
    /\ it_result = "None" => (Len(pages) >= 1 <=> ContentIndices # <<>>)

\* a document that holds front matter only is exhausted with no page
C4_Witness ==
    /\ it_result = "None"
    /\ doc = <<FrontMatterNode>>
    /\ pages = <<>>

\* C5: once the iterator is exhausted, the pages concatenated are the nodes
\* of the document in order without the front matter and, for the break
\* condition ThematicBreak, without the thematic breaks.
C5_PagesPartitionContent ==
    it_result = "None" =>
        Concat(pages) =
            SelectSeq(ContentIndices,
                      LAMBDA i : ~(/\ break_condition.type = "thematic_break"
                                   /\ doc[i].value = "ThematicBreak"))

\* C6: a call of next() that yields a page adds exactly one page, there are
\* never more pages than top-level nodes (so None is returned after at most
\* Len(doc) + 1 calls), and after None every later call returns None.
C6_FiniteNonRestartable ==
    [][/\ it_result = "None" => it_result' = "None"
       /\ it_result' = "Some" => Len(pages') = Len(pages) + 1
       /\ Len(pages') <= Len(doc')]_vars

\* every top-level node became a page of its own before None was returned
C6_Witness ==
    /\ it_result = "None"
    /\ Len(doc) >= 3
    /\ Len(pages) = Len(doc)

(***************************************************************************)
(* Properties of the footnote labels.                                      *)
(***************************************************************************)
\* the digit a superscript character stands for
DigitOf(c) == CHOOSE d \in 0..9 : SUPERSCRIPTS[d + 1] = c

\* 10 to the power n
RECURSIVE Pow10(_)
Pow10(n) == IF n = 0 THEN 1 ELSE 10 * Pow10(n - 1)

\* the number a sequence of superscript digits reads as, most significant
\* digit first
RECURSIVE DecimalValue(_)
DecimalValue(label) ==
    IF label = <<>>
    THEN 0
    ELSE DigitOf(Head(label)) * Pow10(Len(label) - 1) + DecimalValue(Tail(label))

\* C12: the label of an index is never empty, holds superscript digits
\* only, has no leading zero, and read as a decimal number, most
\* significant digit first, is the index plus one; the label of 0 is "^1"
\* and the label of 9 is "^1^0".
C12_SuperscriptIsDecimalOfIndexPlusOne ==
    sup_result # None =>
        LET label == unwrap(sup_result)
        IN  /\ Len(label) >= 1
            /\ \A i \in 1..Len(label) : \E d \in 0..9 : SUPERSCRIPTS[d + 1] = label[i]
            /\ label[1] # SUPERSCRIPTS[1]
            /\ DecimalValue(label) = sup_index + 1
            /\ sup_index = 0 => label = <<"^1">>
            /\ sup_index = 9 => label = <<"^1", "^0">>

\* the label of an index of three digits that differ has been computed
C12_Witness ==
    /\ sup_index = 122
    /\ sup_result = Some(<<"^1", "^2", "^3">>)

(***************************************************************************)
(* Properties of the collected pages.                                      *)
(***************************************************************************)
\* the names of the footnotes referred to anywhere in the nodes
RECURSIVE ReferencedIn(_)
ReferencedIn(nodes) ==
    IF nodes = <<>>
    THEN {}
    ELSE (IF Head(nodes).kind = "FootnoteReference" THEN {Head(nodes).name} ELSE {})
         \cup ReferencedIn(Head(nodes).children)
         \cup ReferencedIn(Tail(nodes))

\* the footnote definition nodes anywhere in the nodes
RECURSIVE DefinitionsIn(_)
DefinitionsIn(nodes) ==
    IF nodes = <<>>
    THEN {}
    ELSE (IF Head(nodes).kind = "FootnoteDefinition" THEN {Head(nodes)} ELSE {})
         \cup DefinitionsIn(Head(nodes).children)
         \cup DefinitionsIn(Tail(nodes))

\* the names defined on any page of the presentation
DefinedAnywhere == {d.name : d \in DefinitionsIn(Concat(run_pages))}

\* the texts of the definitions of a name
DefinedTexts(name) ==
    {d.children[1].children[1].text :
        d \in {e \in DefinitionsIn(Concat(run_pages)) : e.name = name}}

\* the paragraphs of a page that refer to a footnote: a page of footnote
\* nodes has a section for each of them, in order
ReferenceParagraphs(page) == SelectSeq(page, LAMBDA n : n.kind = "Paragraph")

\* the labels emitted inline on page p at the references to the name
InlineLabels(p, name) ==
    {unwrap(widgets)[p].sections.sections[k].text[1][2].content :
        k \in {j \in 1..Len(ReferenceParagraphs(run_pages[p])) :
                 name \in ReferencedIn(<<ReferenceParagraphs(run_pages[p])[j]>>)}}

ListSectionsOf(p) ==
    {collector.sections[p].sections[k] :
        k \in {j \in 1..Len(collector.sections[p].sections) :
                 collector.sections[p].sections[j].kind = "List"}}

ListNodesOf(p) ==
    {run_pages[p][i] : i \in {j \in 1..Len(run_pages[p]) : run_pages[p][j].kind = "List"}}

\* the List nodes of the pages collected so far, with their sections: a
\* page of the model has at most one list
ListsWithSource ==
    UNION {ListNodesOf(p) \X ListSectionsOf(p) : p \in 1..Len(collector.sections)}

\* the number of ordered items among the first n sections
OrderedBefore(sections_, n) ==
    Cardinality({j \in 1..n : sections_[j].kind = "ListItemOrdered"})

\* C13: in every List section built, the k-th item is of the kind of the
\* k-th item node; an ordered item carries the start value of the list
\* plus the number of ordered items before it, and an item of another kind
\* is as the transform of its node alone gives it.
C13_OrdinalsContiguousFromStart ==
    \A pair \in ListsWithSource :
        LET node == pair[1]
            items == pair[2].content.sections
        IN  /\ Len(items) = Len(node.children)
            /\ \A k \in 1..Len(items) :
                  IF node.children[k].list_type = "Ordered"
                  THEN /\ items[k].kind = "ListItemOrdered"
                       /\ items[k].ordinal = node.start + OrderedBefore(items, k - 1)
                  ELSE items[k] =
                           section(footnotes_default, node.children[k], <<>>,
                                   configuration.default_style).target[1]

\* a list that starts at 3 with four ordered items has been built, with
\* the ordinals 3, 4, 5 and 6
C13_Witness ==
    \E pair \in ListsWithSource :
        /\ pair[1].start = 3
        /\ Len(pair[2].content.sections) = 4
        /\ \A k \in 1..4 : /\ pair[2].content.sections[k].kind = "ListItemOrdered"
                           /\ pair[2].content.sections[k].ordinal = 2 + k

\* the index of the section that the i-th node of a page gave: front matter
\* and footnote definitions give none
SectionIndex(page, i) ==
    Cardinality({j \in 1..i : page[j].kind \notin {"FrontMatter", "FootnoteDefinition"}})

\* the section of the i-th node of the collected page p
SectionOfNode(p, i) ==
    collector.sections[p].sections[SectionIndex(run_pages[p], i)]

\* C14: the Heading section of every heading node of a collected page has
\* the level n of the node, starts with the prefix configured for level n,
\* and its other spans have the colour of the style configured for level n.
C14_HeadingUsesStyleOfItsLevel ==
    \A p \in 1..Len(collector.sections) :
        \A i \in 1..Len(run_pages[p]) :
            run_pages[p][i].kind = "Heading" =>
                LET n == run_pages[p][i].level
                    heading == SectionOfNode(p, i)
                IN  /\ heading.kind = "Heading"
                    /\ heading.level = n
                    /\ heading.text[1].content = heading_style(n).prefix
                    /\ \A k \in 2..Len(heading.text) :
                          heading.text[k].style.fg = heading_style(n).style.fg

\* the kinds of nodes that the transform handles
SupportedKinds ==
    {"BlockQuote", "CodeBlock", "FrontMatter", "FootnoteDefinition", "Heading",
     "Item", "List", "Paragraph", "Table", "TableCell", "TableRow", "ThematicBreak",
     "Code", "Emph", "FootnoteReference", "LineBreak", "Link", "SoftBreak",
     "Strong", "Strikethrough", "Text"}

\* some node, at any depth, is of an unsupported kind or is a heading of a
\* level outside 1..6
RECURSIVE Malformed(_)
Malformed(nodes) ==
    /\ nodes # <<>>
    /\ \/ Head(nodes).kind \notin SupportedKinds
       \/ Head(nodes).kind = "Heading" /\ Head(nodes).level \notin 1..6
       \/ Malformed(Head(nodes).children)
       \/ Malformed(Tail(nodes))

\* what holds of a malformed presentation in every state
MalformedNeverShown ==
    /\ \A p \in 1..Len(collector.sections) : ~Malformed(run_pages[p])
    /\ Malformed(Concat(run_pages)) =>
          /\ widgets = None
          /\ run_state \in {"collect", "panicked"}
    /\ run_state = "panicked" =>
          /\ Len(collector.sections) < Len(run_pages)
          /\ Malformed(run_pages[Len(collector.sections) + 1])
    /\ \A p \in 1..Len(collector.sections) :
          Len(collector.sections[p].sections) =
              SectionIndex(run_pages[p], Len(run_pages[p]))

\* the next page to collect is malformed
NextPageMalformed ==
    /\ run_state = "collect"
    /\ Len(collector.sections) < Len(run_pages)
    /\ Malformed(run_pages[Len(collector.sections) + 1])

\* C15: no malformed page is ever collected; while the presentation has a
\* malformed page no page widgets exist and the user interface is not
\* entered; the step that transforms a malformed page fails the run, and
\* no other step does; the front matter and footnote definition nodes of
\* the collected pages gave no section and no failure.
C15_MalformedAbortsLoad ==
    /\ []MalformedNeverShown
    /\ [][IF NextPageMalformed
          THEN run_state' = "panicked"
          ELSE run_state' # "panicked"]_vars

\* the second page of a presentation holds an HTML block: its first page
\* was collected, then the run failed, without any page widget
C15_Witness ==
    /\ Len(run_pages) = 2
    /\ run_pages[2] = <<Node("HtmlBlock", <<>>)>>
    /\ Len(collector.sections) = 1
    /\ run_state = "panicked"
    /\ widgets = None

\* the number of lines of a source text: its line feeds, and one more when
\* characters follow the last of them
SourceLines(text) ==
    Cardinality({i \in 1..Len(text) : text[i] = "\n"})
    + (IF text # <<>> /\ text[Len(text)] # "\n" THEN 1 ELSE 0)

\* the lines joined by line feeds
RECURSIVE JoinLines(_)
JoinLines(lines) ==
    IF lines = <<>>
    THEN <<>>
    ELSE IF Len(lines) = 1
         THEN Head(lines)
         ELSE Head(lines) \o <<"\n">> \o JoinLines(Tail(lines))

\* the text without its last line feed
WithoutLastLineFeed(text) ==
    IF text # <<>> /\ text[Len(text)] = "\n" THEN SubSeq(text, 1, Len(text) - 1) ELSE text

\* C16: a code block whose highlighting failed never fails the run: the
\* run fails on malformed pages only, and on a collected page the block gave
\* one Code section (the following nodes gave theirs), whose lines are as
\* many as the source has, each one unstyled span, together the source
\* text.
C16_HighlightFailureFallsBack ==
    /\ run_state = "panicked" =>
          Malformed(run_pages[Len(collector.sections) + 1])
    /\ \A p \in 1..Len(collector.sections) :
          /\ Len(collector.sections[p].sections) =
                 SectionIndex(run_pages[p], Len(run_pages[p]))
          /\ \A i \in 1..Len(run_pages[p]) :
                (run_pages[p][i].kind = "CodeBlock" /\ ~run_pages[p][i].highlight_ok) =>
                    LET code == SectionOfNode(p, i)
                        source == run_pages[p][i].literal
                    IN  /\ code.kind = "Code"
                        /\ Len(code.text) = SourceLines(source)
                        /\ \A l \in 1..Len(code.text) :
                              /\ Len(code.text[l]) = 1
                              /\ code.text[l][1].style = style_default
                        /\ JoinLines([l \in 1..Len(code.text) |-> code.text[l][1].content])
                               = WithoutLastLineFeed(source)

\* a code block of two lines whose highlighting failed and the paragraph
\* after it are collected: a Code section of two lines and a Paragraph
C16_Witness ==
    /\ Len(collector.sections) >= 1
    /\ run_pages[1] = <<CodeBlockNode(<<"x", "\n", "x">>, FALSE),
                        ParagraphNode(<<TextNode("t")>>)>>
    /\ Len(collector.sections[1].sections) = 2
    /\ collector.sections[1].sections[1].kind = "Code"
    /\ Len(collector.sections[1].sections[1].text) = 2
    /\ collector.sections[1].sections[2].kind = "Paragraph"

(***************************************************************************)
(* Properties of the heights.                                              *)
(***************************************************************************)
\* the Sections collections of a tree of sections: the collection itself
\* and those of the contents of its block quotes, lists and list items
RECURSIVE Collections(_)
Collections(self) ==
    {self}
    \cup UNION {Collections(self.sections[i].content) :
                  i \in {j \in 1..Len(self.sections) :
                           self.sections[j].kind \in
                               {"BlockQuote", "List", "ListItemOrdered",
                                "ListItemUnordered"}}}

\* the sum of the first n numbers of a sequence
RECURSIVE SumTo(_, _)
SumTo(numbers, n) == IF n = 0 THEN 0 ELSE numbers[n] + SumTo(numbers, n - 1)

\* the heights of the sections of a collection on their own
OwnHeights(self, w) ==
    [i \in 1..Len(self.sections) |-> section_height(self.sections[i], w)]

\* the sum of the own heights, 1 above every heading but the first
\* section, and the inner margin below every section but the last
ComposedHeight(self, w) ==
    SumTo(OwnHeights(self, w), Len(self.sections))
    + Cardinality({i \in 2..Len(self.sections) : self.sections[i].kind = "Heading"})
    + (IF Len(self.sections) > 1 THEN (Len(self.sections) - 1) * self.inner_margin ELSE 0)

\* C17: the measured height of the page, and the height of every
\* collection nested in it, is the sum of the own heights of its sections
\* (where these are computed without overflow), 1 for every heading but a
\* first one, and the inner margin for every section but the last; it is 0
\* for an empty collection and the own height for a single section.
C17_HeightIsSumPaddingMargin ==
    measured # None =>
        /\ (\A i \in 1..Len(page_sections.sections) :
               OwnHeights(page_sections, width)[i] # Panic)
              => unwrap(measured) = ComposedHeight(page_sections, width)
        /\ \A self \in Collections(page_sections) :
              (\A i \in 1..Len(self.sections) : OwnHeights(self, width)[i] # Panic)
                  => /\ sections_height(self, width) = ComposedHeight(self, width)
                     /\ Len(self.sections) = 0 => sections_height(self, width) = 0
                     /\ Len(self.sections) = 1 =>
                            sections_height(self, width) = OwnHeights(self, width)[1]

\* a paragraph and a heading after it are measured at width 5: a row each,
\* the margin between them and the padding above the heading
C17_Witness ==
    /\ page_sections = SectionsFrom(<<Paragraph(<< <<<<"x">>>> >>), Heading(<<<<"x">>>>, 1)>>)
    /\ width = 5
    /\ measured = Some(4)

\* the data rows of a table
DataRows(rows) == Cardinality({i \in 1..Len(rows) : ~rows[i].header})

\* the frame, the header row if there is one, the data rows and a
\* separator between every two of them
TableRowsFormula(rows) ==
    IF Len(rows) = 0
    THEN 0
    ELSE 2 + (IF \E i \in 1..Len(rows) : rows[i].header THEN 1 ELSE 0)
           + (2 * DataRows(rows) - 1)

\* C18: the measured height of a page that is one table is
\* 2 + (1 if the table has a header row) + (2 x data rows - 1), a u16, when
\* the table has a row, and 0 when it has none.
C18_TableHeightFormula ==
    (/\ measured # None
     /\ Len(page_sections.sections) = 1
     /\ page_sections.sections[1].kind = "Table")
        => /\ unwrap(measured) \in 0..(U16 - 1)
           /\ unwrap(measured) = TableRowsFormula(page_sections.sections[1].rows)

\* no line of the text holds a character that is not whitespace
Blank(text) ==
    \A l \in 1..Len(text) :
        \A i \in 1..Len(Concat(text[l])) : is_whitespace(Concat(text[l])[i])

\* the page is one paragraph
OneParagraph ==
    /\ Len(page_sections.sections) = 1
    /\ page_sections.sections[1].kind = "Paragraph"

\* C19: a page that is one paragraph without any non-whitespace character
\* measures 0 at every width and nothing is drawn for it; a paragraph with
\* such a character measures the sum of height_line(width, 0, line) over
\* all of its lines, the whitespace-only ones included.
C19_ParagraphHeight ==
    OneParagraph =>
        LET text == page_sections.sections[1].text
        IN  IF Blank(text)
            THEN /\ measured # None => unwrap(measured) = 0
                 /\ rendered # None => unwrap(rendered) = 0
            ELSE measured # None =>
                    unwrap(measured) =
                        SumTo([l \in 1..Len(text) |-> height_line(width, 0, text[l])],
                              Len(text))

\* a paragraph of a line with a word and a line of whitespace is measured
\* and drawn at width 5: a row for each line
C19_Witness ==
    /\ page_sections = SectionsFrom(<<Paragraph(<< <<<<"x">>>>, <<<<" ">>>> >>)>>)
    /\ width = 5
    /\ measured = Some(2)
    /\ rendered # None

\* C20: measuring and drawing complete without a panic for every page,
\* footnote listing and terminal size, and in an area of width 0 the height
\* is 0 and nothing is drawn.
C20_NoFailureMode ==
    /\ measured # None =>
          /\ unwrap(measured) # Panic
          /\ width = 0 => unwrap(measured) = 0
    /\ rendered # None =>
          /\ unwrap(rendered) # Panic
          /\ width = 0 => unwrap(rendered) = 0
    /\ frame_rendered # None =>
          /\ unwrap(frame_rendered) # Panic
          /\ width = 0 => unwrap(frame_rendered) = 0

(***************************************************************************)
(* Properties of height_line.                                              *)
(***************************************************************************)
\* C21: at width 10 without indent "one two three" in one run measures 2
\* rows, the 45 characters of the test's line with the overlong word
\* measure 5 rows, and the 28 characters "a long woooooooooooooooooord"
\* measure 3 rows.
C21_HeightLineExamples ==
    (line_height # None /\ line_width = 10 /\ line_indent = 0) =>
        /\ line_runs = <<OneTwoThree>> => unwrap(line_height) = 2
        /\ line_runs = <<TestLongLine>> => unwrap(line_height) = 5
        /\ line_runs = <<ShortLongLine>> => unwrap(line_height) = 3

\* the 28 characters are measured at width 10: 3 rows
C21_Witness ==
    /\ line_runs = <<ShortLongLine>>
    /\ Len(ShortLongLine) = 28
    /\ line_width = 10
    /\ line_indent = 0
    /\ line_height = Some(3)

\* C21 as stated: at width 10 without indent "one two three" measures 2
\* rows and the 28 characters "a long woooooooooooooooooord" measure 5.
C21_AsStated ==
    (line_height # None /\ line_width = 10 /\ line_indent = 0) =>
        /\ line_runs = <<OneTwoThree>> => unwrap(line_height) = 2
        /\ line_runs = <<ShortLongLine>> => unwrap(line_height) = 5

\* C22: the rows measured for a line cut into runs are the rows measured
\* for its characters in one run at the same width and indent, and they
\* are at least 1, also for a line without a character or without a run.
C22_HeightLineOfCharacters ==
    line_height # None =>
        /\ unwrap(line_height) =
               height_line(line_width, line_indent, <<Concat(line_runs)>>)
        /\ unwrap(line_height) >= 1

\* "one two" and " three" are measured as one line at width 10: 2 rows
C22_Witness ==
    /\ line_runs = <<SubSeq(OneTwoThree, 1, 7), SubSeq(OneTwoThree, 8, 13)>>
    /\ line_width = 10
    /\ line_indent = 0
    /\ line_height = Some(2)

(***************************************************************************)
(* Properties of the footnote panel.                                       *)
(***************************************************************************)
\* the rows of the page's own content in the page area
ContentHeight == sections_height(page_sections, page_area(frame_size).width)

\* the rows of the page area below the content
PanelHeight == page_area(frame_size).height - ContentHeight

\* the summed heights of the footnotes of the page
PanelNeeds == listing_height(page_footnotes, page_area(frame_size).width)

\* the rects of the footnotes in the panel, from its top
PanelRects ==
    footnote_listing_rects(page_footnotes, listing_margin(page_footnotes),
                           page_area(frame_size).width,
                           PanelHeight - PanelNeeds, PanelNeeds)

\* the page was drawn and has footnotes and rows below its content
PanelCase ==
    /\ frame_rendered # None
    /\ page_area(frame_size).height # Panic
    /\ ContentHeight # Panic
    /\ page_footnotes # <<>>
    /\ page_area(frame_size).height > ContentHeight

\* C23: when a page with footnotes is drawn with rows left below its
\* content, either the footnotes need more rows than are left and nothing
\* but the sections of the page is drawn, or every footnote is drawn in a rect of its
\* own height, the rects follow each other in listing order without a row
\* in common, the first starts below the content and the last ends on the
\* bottom row of the page area.
C23_FootnotePanel ==
    PanelCase =>
        /\ PanelNeeds # Panic
        /\ unwrap(frame_rendered) # Panic
        /\ IF PanelNeeds > PanelHeight
           THEN unwrap(frame_rendered) =
                    sections_render(page_sections, page_area(frame_size).width,
                                    page_area(frame_size).height)
           ELSE /\ PanelRects[1].y >= 0
                /\ \A i \in 1..Len(PanelRects) :
                      /\ PanelRects[i].rows > 0
                      /\ PanelRects[i].rows <= PanelRects[i].used
                      /\ i < Len(PanelRects) =>
                            PanelRects[i + 1].y = PanelRects[i].y + PanelRects[i].used
                      /\ i = Len(PanelRects) =>
                            PanelRects[i].y + PanelRects[i].used = PanelHeight
                /\ unwrap(frame_rendered) > ContentHeight
                /\ unwrap(frame_rendered) <= page_area(frame_size).height

(***************************************************************************)
(* Properties of interpolate.                                              *)
(***************************************************************************)
\* the key of a piece that is a token
KeyOf(piece) == SubSeq(piece, 3, Len(piece) - 1)

IsToken(piece) == piece \in {TokenA, TokenB, TokenEmpty}

\* every token with a replacement replaced by it, everything else kept
Interpolated(pieces) ==
    Concat([i \in 1..Len(pieces) |->
               IF IsToken(pieces[i]) /\ replacements(KeyOf(pieces[i])) # None
               THEN unwrap(replacements(KeyOf(pieces[i])))
               ELSE pieces[i]])

\* C24: the string interpolate returns is its argument with every token
\* ${key} whose key has a replacement replaced by it, and every other token
\* and all other text unchanged.
C24_InterpolateReplacesEveryToken ==
    ip_state = "done" => ip_text = Interpolated(ip_pieces)

\* a turn of the loop that replaces a token
ReplacingTurn ==
    /\ ip_state = "loop"
    /\ next_replacement(ip_index, ip_text) # None
    /\ replacements(slice(ip_text,
                          unwrap(next_replacement(ip_index, ip_text)).key_range)) # None

\* the end of the text a replacing turn puts in
ReplacementEnd ==
    unwrap(next_replacement(ip_index, ip_text)).replacement_range[1]
    + Len(unwrap(replacements(slice(
          ip_text, unwrap(next_replacement(ip_index, ip_text)).key_range))))

\* C30: every call of interpolate returns, and after a turn that replaces
\* a token the search goes on at or after the end of the text put in.
C30_InterpolateTerminates ==
    /\ <>(ip_state = "done")
    /\ [][ReplacingTurn => ip_index' >= ReplacementEnd]_vars

(***************************************************************************)
(* Properties of the merge of partial structs.                             *)
(***************************************************************************)
\* C25: in self.merge(other) a field present in self has self's value, a
\* field absent in self has other's value, and a field absent in both is
\* absent.
C25_MergePrefersSelf ==
    merged # None =>
        \A field \in DOMAIN merge_self :
            /\ merge_self[field] # None => unwrap(merged)[field] = merge_self[field]
            /\ merge_self[field] = None => unwrap(merged)[field] = merge_other[field]

(***************************************************************************)
(* Properties of the nested sections.                                      *)
(***************************************************************************)
\* the page is one block quote, or one list
OneNested ==
    /\ Len(page_sections.sections) = 1
    /\ page_sections.sections[1].kind \in {"BlockQuote", "List"}

\* the columns render leaves to nested content beside a gutter
BesideGutter(gutter) == layout_split_rest(width, gutter)[2].length

\* the height of the one nested section with its content measured at the
\* width render lays it out in: the head row and the content of a block
\* quote, the contents of the items of a list
HeightAtRenderWidth ==
    IF page_sections.sections[1].kind = "BlockQuote"
    THEN 1 + sections_height(page_sections.sections[1].content,
                             BesideGutter(INDENT \div 2))
    ELSE SumTo([i \in 1..Len(page_sections.sections[1].content.sections) |->
                   sections_height(
                       page_sections.sections[1].content.sections[i].content,
                       BesideGutter(INDENT))],
               Len(page_sections.sections[1].content.sections))

\* C26: the height measured for a block quote or for the items of a list
\* is the height of the nested content at the area width less the gutter
\* (INDENT / 2 columns for a block quote, INDENT columns for a list item),
\* and it is the number of rows the section is drawn into.
C26_NestedMeasuredAtRenderWidth ==
    (OneNested /\ measured # None /\ unwrap(measured) # Panic) =>
        /\ unwrap(measured) = HeightAtRenderWidth
        /\ rendered # None => unwrap(rendered) = unwrap(measured)

(***************************************************************************)
(* Properties of the parts of Sections::render.                            *)
(***************************************************************************)
\* the heights of the areas the parts are looked at in
AreaHeights == 0..MaxHeight \cup {Tall}

\* every part has the height of its section
PartsExact(parts, own) == \A i \in 1..Len(parts) : parts[i].length = own[i]

\* the parts follow each other top to bottom inside an area of the height,
\* without a row in common and without a negative height
PartsInOrder(parts, height) ==
    \A i \in 1..Len(parts) :
        /\ parts[i].length >= 0
        /\ parts[i].offset >= 0
        /\ i < Len(parts) => parts[i].offset + parts[i].length <= parts[i + 1].offset
        /\ parts[i].length > 0 => parts[i].offset + parts[i].length <= height

\* the parts are in order, and exact when the area is tall enough
PartsRight(parts, own, height, needed) ==
    /\ PartsInOrder(parts, height)
    /\ height >= needed => PartsExact(parts, own)

\* C27: Sections::render does not fail; in an area at least as tall as
\* Sections::height every section is given, after its padding and the
\* inner margin are taken off, a part of exactly its own height, and the
\* parts follow each other in sibling order without overlap; in a shorter
\* area the heights of the parts saturate at 0.
C27_RenderPartsExact ==
    rendered # None =>
        /\ unwrap(rendered) # Panic
        /\ \A height \in AreaHeights :
              PartsRight(sections_render_parts(page_sections, width, height),
                         OwnHeights(page_sections, width), height,
                         sections_height(page_sections, width))

(***************************************************************************)
(* Properties of the UI loop.                                              *)
(***************************************************************************)
\* the loop is only run, and a frame only drawn, with a page, and the page
\* shown is one of the pages
PageInRange ==
    /\ ui_state \in {"run", "loop", "exited", "failed"} => ui_pages >= 1
    /\ ui_drawn => ui_pages >= 1
    /\ ui_state = "rejected" => ~ui_drawn /\ ui_pages = 0
    /\ ui_pages >= 1 => ui_page \in 0..(ui_pages - 1)

\* a turn of the loop has read an event
TurnTaken == ui_turns' = ui_turns + 1

\* the page after an event, spelled out key by key
PageAfterKey ==
    /\ (ui_event' \in {"Left", "Backspace"} /\ ui_page = 0) => ui_page' = 0
    /\ (ui_event' \in {"Left", "Backspace"} /\ ui_page > 0) => ui_page' = ui_page - 1
    /\ (ui_event' \in {"Right", "Enter"} /\ ui_page = ui_pages - 1) => ui_page' = ui_page
    /\ (ui_event' \in {"Right", "Enter"} /\ ui_page < ui_pages - 1) =>
          ui_page' = ui_page + 1
    /\ ui_event' \notin NavigationKeys => ui_page' = ui_page

\* C28: ui::run is only entered, and a frame only drawn, with at least one
\* page; the page shown stays within 0..pages-1; Left and Backspace go back
\* one page unless on the first, Right and Enter go on one page unless on
\* the last, and no other event changes the page.
C28_PageStaysInRange ==
    /\ []PageInRange
    /\ [][TurnTaken => PageAfterKey]_vars

\* on the last of two pages Right was read a second time
C28_Witness ==
    /\ ui_pages = 2
    /\ ui_page = 1
    /\ ui_event = "Right"
    /\ ui_turns = 2
    /\ ui_state = "loop"

\* the number of entries of a log with a name
RECURSIVE Dispatched(_, _)
Dispatched(log, name) ==
    IF log = <<>>
    THEN 0
    ELSE (IF Head(log)[1] = name THEN 1 ELSE 0) + Dispatched(Tail(log), name)

\* a run that dispatched initialize and has ended dispatched finalize once,
\* as the last command
FinalizedOnce ==
    (ui_state \in {"exited", "failed"} /\ Dispatched(ui_log, "initialize") = 1) =>
        /\ Dispatched(ui_log, "finalize") = 1
        /\ ui_log[Len(ui_log)] = <<"finalize">>
        /\ ui_log[1] = <<"initialize">>

\* update is dispatched after a navigation key, with the page number
\* counted from 1 and the number of pages, and after no other event
UpdateAfterKey ==
    IF ui_event' \in NavigationKeys /\ path_ok
    THEN ui_log' = Append(ui_log, <<"update", ui_page' + 1, ui_pages>>)
    ELSE Dispatched(ui_log', "update") = Dispatched(ui_log, "update")

\* C29: a run of the loop that dispatched initialize and ends, by q or by
\* a failure to read an event, has dispatched finalize exactly once, after
\* initialize and every update; update is dispatched once after each
\* Left, Backspace, Right or Enter with the page number counted from 1 and
\* the number of pages, and never after another event.
C29_FinalizeExactlyOnce ==
    /\ []FinalizedOnce
    /\ [][TurnTaken => UpdateAfterKey]_vars
====
